---------------------------- MODULE Spec2Model ----------------------------
(***************************************************************************)
(* Model of the Btrfs send-stream tools of osandov-linux:                  *)
(*   scripts/btrfs-send-sanitize.py  (filter_send_stream, the sanitizer)   *)
(*   scripts/btrfs_send_parse.py     (parse_send_stream, the reader)       *)
(*                                                                         *)
(* Bytes are the naturals 0..255 and a bytes object is a sequence of them. *)
(* A 32-bit word (a CRC accumulator, a table entry) is kept as its four    *)
(* little-endian bytes <<b0, b1, b2, b3>>, which is also what              *)
(* struct.pack('<I', w) writes, so that no intermediate value leaves the   *)
(* 32-bit range.                                                           *)
(***************************************************************************)
EXTENDS Integers, Sequences, FiniteSets, TLC

\* ------------------------------------------------------------------ bounds

\* Most commands of an input stream before the closing END command.
MaxCmds == 2

\* Most bytes cut off the end of an input stream (truncated inputs).
MaxCut == 13

\* The number of components of the deepest path of the inputs.
DeepComponents == 1986

\* ------------------------------------------------------- bits and bytes

Min(a, b) == IF a < b THEN a ELSE b

RECURSIVE XorNat(_, _)
\* a ^ b on naturals, bit by bit.
XorNat(a, b) ==
    IF a = 0 THEN b
    ELSE IF b = 0 THEN a
    ELSE ((a + b) % 2) + 2 * XorNat(a \div 2, b \div 2)

RECURSIVE AndNat(_, _)
\* a & b on naturals, bit by bit.
AndNat(a, b) ==
    IF a = 0 \/ b = 0 THEN 0
    ELSE ((a % 2) * (b % 2)) + 2 * AndNat(a \div 2, b \div 2)

RECURSIVE OrNat(_, _)
\* a | b on naturals, bit by bit.
OrNat(a, b) ==
    IF a = 0 THEN b
    ELSE IF b = 0 THEN a
    ELSE (IF a % 2 = 1 \/ b % 2 = 1 THEN 1 ELSE 0) + 2 * OrNat(a \div 2, b \div 2)

\* The byte-wide exclusive or, tabulated once.
Xor8 == [a \in 0..255 |-> [b \in 0..255 |-> XorNat(a, b)]]

\* w1 ^ w2 on 32-bit words.
XorW(w1, w2) ==
    <<Xor8[w1[1]][w2[1]], Xor8[w1[2]][w2[2]], Xor8[w1[3]][w2[3]], Xor8[w1[4]][w2[4]]>>

\* w >> 1 on a 32-bit word.
Shr1(w) ==
    <<(w[1] \div 2) + 128 * (w[2] % 2),
      (w[2] \div 2) + 128 * (w[3] % 2),
      (w[3] \div 2) + 128 * (w[4] % 2),
      w[4] \div 2>>

\* w >> 8 on a 32-bit word.
Shr8(w) == <<w[2], w[3], w[4], 0>>

\* The all-zero bytes object bytes(n).
Zeroes(n) == <<>> \o [i \in 1..n |-> 0]

\* ----------------------------------------------------------------- crc32c

\* 0x82f63b78, the reflected Castagnoli polynomial.
CRC32C_POLY == <<120, 59, 246, 130>>

RECURSIVE crc32c_rounds(_, _)
\* The inner loop "for j in range(8, 0, -1)" on fwd.
crc32c_rounds(fwd, j) ==
    IF j = 0 THEN fwd
    ELSE crc32c_rounds(IF fwd[1] % 2 = 1 THEN XorW(Shr1(fwd), CRC32C_POLY)
                       ELSE Shr1(fwd),
                       j - 1)

\* _crc32c_table, indexed 0..255.
crc32c_table == [i \in 0..255 |-> crc32c_rounds(<<i, 0, 0, 0>>, 8)]

\* A variant that indexes the table by the byte alone.
crc32c_step_by_byte(crc, c) == XorW(Shr8(crc), crc32c_table[c])

\* One step of the byte loop: crc = (crc >> 8) ^ table[(crc ^ c) & 0xff].
crc32c_step(crc, c) == XorW(Shr8(crc), crc32c_table[Xor8[crc[1]][c]])

RECURSIVE crc32c_loop(_, _, _, _)
\* The loop "for c in b" over b[lo..hi], in order, from the accumulator crc
\* (the first half of the range, then the second from where the first ended).
crc32c_loop(crc, b, lo, hi) ==
    IF lo > hi THEN crc
    ELSE IF lo = hi THEN crc32c_step(crc, b[lo])
    ELSE LET mid == (lo + hi) \div 2
             half == crc32c_loop(crc, b, lo, mid)
         IN  \* the test has half computed before the second half starts
             IF Len(half) = 4 THEN crc32c_loop(half, b, mid + 1, hi) ELSE half

\* The accumulator crc32c(b) starts from.
CRC32C_SEED_bad == <<255, 255, 255, 255>>
CRC32C_SEED == <<0, 0, 0, 0>>

\* crc32c(b): the accumulator starts at 0 and is returned as it is (the same
\* as libbtrfs' crc32c_le(0, b, len(b))).
crc32c(b) == crc32c_loop(CRC32C_SEED, b, 1, Len(b))


\* ----------------------------------------------------------------- struct

\* The little-endian unsigned integer of a bytes object (int.from_bytes(b,
\* "little"), and struct.unpack of '<H', '<I', '<Q').
RECURSIVE from_bytes_at(_, _)
from_bytes_at(b, i) ==
    IF i > Len(b) THEN 0 ELSE b[i] + 256 * from_bytes_at(b, i + 1)

from_bytes(b) == from_bytes_at(b, 1)

\* struct.pack('<H', n).
pack_H(n) == <<n % 256, (n \div 256) % 256>>

\* struct.pack('<I', n) of a length.
pack_I(n) == <<n % 256, (n \div 256) % 256, (n \div 65536) % 256, (n \div 16777216) % 256>>

\* struct.pack('<HH', tlv_type, tlv_len).
pack_HH(tlv_type, tlv_len) == pack_H(tlv_type) \o pack_H(tlv_len)

\* struct.pack('<IHI', length, cmd, crc); crc is a 32-bit word.
pack_IHI(length, cmd, crc) == pack_I(length) \o pack_H(cmd) \o crc

\* A variant: a limit that lets lengths of more than 16 bits be packed.
USHRT_MAX_wide == 16 * 65535

\* The largest value struct.pack takes for an 'H' field.
USHRT_MAX == 65535

\* struct.unpack of an 'I' field.  A value of 2^31 or more is kept as
\* 2^31 - 1: it is used as a byte count only, and no input is that long.
unpack_I(b) == IF b[4] >= 128 THEN 2147483647 ELSE from_bytes(b)

\* infile.read(n) at offset pos: the next n bytes, or as many as are left.
read(file, pos, n) ==
    SubSeq(file, pos + 1, IF n >= Len(file) - pos THEN Len(file) ELSE pos + n)

\* --------------------------------------------------- send.h enumerations

BTRFS_SEND_STREAM_MAGIC == <<98, 116, 114, 102, 115, 45, 115, 116, 114, 101, 97, 109, 0>>
BTRFS_SEND_STREAM_VERSION == 1

CMD_MKFILE == 3
CMD_MKNOD == 5
CMD_RENAME == 9
CMD_UNLINK == 11
CMD_SET_XATTR == 13
CMD_REMOVE_XATTR == 14
CMD_WRITE == 15
CMD_TRUNCATE == 17
CMD_CHOWN == 19
CMD_UTIMES == 20
CMD_END == 21
CMD_UPDATE_EXTENT == 22

ATTR_UUID == 1
ATTR_CTRANSID == 2
ATTR_INO == 3
ATTR_SIZE == 4
ATTR_MODE == 5
ATTR_UID == 6
ATTR_GID == 7
ATTR_RDEV == 8
ATTR_CTIME == 9
ATTR_MTIME == 10
ATTR_ATIME == 11
ATTR_OTIME == 12
ATTR_XATTR_NAME == 13
ATTR_XATTR_DATA == 14
ATTR_PATH == 15
ATTR_PATH_TO == 16
ATTR_PATH_LINK == 17
ATTR_FILE_OFFSET == 18
ATTR_DATA == 19
ATTR_CLONE_UUID == 20
ATTR_CLONE_CTRANSID == 21
ATTR_CLONE_PATH == 22
ATTR_CLONE_OFFSET == 23
ATTR_CLONE_LEN == 24

\* The attribute types filter_cmd hashes as paths.
PathAttrs_xattr_name ==
    {ATTR_PATH, ATTR_PATH_TO, ATTR_PATH_LINK, ATTR_CLONE_PATH, ATTR_XATTR_NAME}
PathAttrs == {ATTR_PATH, ATTR_PATH_TO, ATTR_PATH_LINK, ATTR_CLONE_PATH}

\* A variant that leaves the owner's identifiers as they are.
RedactedAttrs_no_ids ==
    {ATTR_DATA, ATTR_CTIME, ATTR_MTIME, ATTR_ATIME, ATTR_OTIME}

\* The attribute types filter_cmd redacts to zeroes.
RedactedAttrs ==
    {ATTR_DATA, ATTR_CTIME, ATTR_MTIME, ATTR_ATIME, ATTR_OTIME, ATTR_UID, ATTR_GID}

\* The command types filter_cmd elides.
ElidedCmds_bad == {CMD_SET_XATTR}
ElidedCmds == {CMD_SET_XATTR, CMD_REMOVE_XATTR}

\* ------------------------------------------------------------- hashlib.md5
(***************************************************************************)
(* MD5 itself is library code.  What the sanitizer relies on is kept: a    *)
(* hasher is a fixed-size state, update() folds bytes into it in order,    *)
(* copy() gives an independent object with the same state, and hexdigest() *)
(* is a function of the state alone that returns 32 lower-case hexadecimal *)
(* digits.  The compression function is a 16-bit multiplicative fold.      *)
(***************************************************************************)
MD5_HEXDIGEST_LEN == 32

MD5_INIT == 4660

md5_fold(h, c) == (h * 251 + c + 1) % 65536

RECURSIVE md5_update_at(_, _, _, _)
\* The state after data[lo..hi], in order, from the state h (the first half
\* of the range, then the second from where the first ended).
md5_update_at(h, data, lo, hi) ==
    IF lo > hi THEN h
    ELSE IF lo = hi THEN md5_fold(h, data[lo])
    ELSE LET mid == (lo + hi) \div 2
             half == md5_update_at(h, data, lo, mid)
         IN  IF half >= 0 THEN md5_update_at(half, data, mid + 1, hi) ELSE half

\* hasher.update(data): the state after data.
md5_update(h, data) == md5_update_at(h, data, 1, Len(data))

\* hashlib.md5(data).
md5(data) == md5_update(MD5_INIT, data)

\* hasher.copy(): a new object holding the same state.
md5_copy(h) == h

\* The ASCII code of a hexadecimal digit 0..15.
HexChar(d) == IF d < 10 THEN 48 + d ELSE 87 + d

\* hasher.hexdigest().encode('ascii'): the finalized state's hexadecimal
\* digits, MD5_HEXDIGEST_LEN of them whatever was hashed.
md5_hexdigest(h) ==
    LET f == md5_fold(md5_fold(h, 128), 0)
        Pow16(k) == IF k = 0 THEN 1 ELSE IF k = 1 THEN 16 ELSE IF k = 2 THEN 256 ELSE 4096
    IN  <<>> \o [i \in 1..MD5_HEXDIGEST_LEN |-> HexChar((f \div Pow16((i - 1) % 4)) % 16)]

\* ------------------------------------------------------------- filter_path

SLASH == 47
DOT == 46

RECURSIVE split_at(_, _, _)
\* The components of path[lo..hi], one more than it has separators: those of
\* the first half of the range, then those of the second, the last component
\* of the one and the first of the other being one component.
split_at(path, lo, hi) ==
    IF lo > hi THEN << <<>> >>
    ELSE IF lo = hi
    THEN IF path[lo] = SLASH THEN << <<>>, <<>> >> ELSE << <<path[lo]>> >>
    ELSE LET mid == (lo + hi) \div 2
             left == split_at(path, lo, mid)
             right == split_at(path, mid + 1, hi)
         IN  SubSeq(left, 1, Len(left) - 1)
             \o << left[Len(left)] \o right[1] >>
             \o SubSeq(right, 2, Len(right))

\* path.split(b'/').
split(path) == split_at(path, 1, Len(path))

RECURSIVE join_at(_, _, _)
\* parts[lo..hi] with a separator between each two.
join_at(parts, lo, hi) ==
    IF lo > hi THEN <<>>
    ELSE IF lo = hi THEN parts[lo]
    ELSE LET mid == (lo + hi) \div 2
         IN  join_at(parts, lo, mid) \o <<SLASH>> \o join_at(parts, mid + 1, hi)

\* A variant that leaves the empty components out.
join_nonempty(parts) ==
    LET kept == SelectSeq(parts, LAMBDA part : part # <<>>)
    IN  join_at(kept, 1, Len(kept))

\* b'/'.join(parts).
join(parts) == join_at(parts, 1, Len(parts))

\* "not component or component == b'.' or component == b'..'".
kept_component(component) ==
    component = <<>> \/ component = <<DOT>> \/ component = <<DOT, DOT>>

\* "hasher = hasher.copy(); hasher.update(component)": the hasher the
\* component's digest is taken from, which the local name hasher is then bound
\* to for the components that follow.
component_hasher(hasher, component) ==
    md5_update(md5_copy(hasher), component)

RECURSIVE filter_components(_, _, _, _)
\* The loop of filter_path over components[lo..hi] of path.split(b'/'), in
\* order: hasher is the local variable hasher when it starts; the result holds
\* the local variable when it ends and the components appended to new_path
\* (the first half of the range, then the second from where the first ended).
filter_components(components, lo, hi, hasher) ==
    IF lo > hi THEN [hasher |-> hasher, new_path |-> <<>>]
    ELSE IF lo = hi
    THEN IF kept_component(components[lo])
         THEN [hasher |-> hasher, new_path |-> <<components[lo]>>]
         ELSE LET h == component_hasher(hasher, components[lo])
              IN  [hasher |-> h, new_path |-> <<md5_hexdigest(h)>>]
    ELSE LET mid == (lo + hi) \div 2
             left == filter_components(components, lo, mid, hasher)
             right == filter_components(components, mid + 1, hi, left.hasher)
         IN  IF left.hasher >= 0
             THEN [hasher |-> right.hasher, new_path |-> left.new_path \o right.new_path]
             ELSE left

\* A variant that hashes the path as a whole.
filter_path_whole(path, hasher) ==
    IF path = <<>> THEN path ELSE md5_hexdigest(md5_update(md5_copy(hasher), path))

\* filter_path(path, hasher).
filter_path(path, hasher) ==
    LET components == split(path)
    IN  join(filter_components(components, 1, Len(components), hasher).new_path)

\* A variant of filter_path that takes no copy: the hasher it is given is the
\* one updated with every hashed component.
shared_hasher_in_place(path, hasher) ==
    LET components == split(path)
    IN  filter_components(components, 1, Len(components), hasher).hasher

\* The state, when filter_path(path, hasher) returns, of the object the caller
\* passed as hasher: "hasher = hasher.copy()" binds the local name to a new
\* object before each "hasher.update(component)", so that no update reaches
\* the caller's object.
shared_hasher(path, hasher) == hasher

\* --------------------------------------------------------------- filter_cmd

\* A variant that redacts by the number of bytes read, not the declared one.
new_tlv_value_short(tlv_type, orig_tlv_len, orig_tlv_value, hasher) ==
    IF tlv_type \in PathAttrs THEN filter_path(orig_tlv_value, hasher)
    ELSE IF tlv_type \in RedactedAttrs THEN Zeroes(Len(orig_tlv_value))
    ELSE orig_tlv_value

\* The new value of one attribute: the if / elif / else of filter_cmd.
new_tlv_value(tlv_type, orig_tlv_len, orig_tlv_value, hasher) ==
    IF tlv_type \in PathAttrs THEN filter_path(orig_tlv_value, hasher)
    ELSE IF tlv_type \in RedactedAttrs THEN Zeroes(orig_tlv_len)
    ELSE orig_tlv_value

\* A variant that counts the value without the attribute header.
tlv_size_value(orig_tlv_len) == orig_tlv_len

\* "n += 4 + orig_tlv_len": what an attribute adds to the count n.
tlv_size(orig_tlv_len) == 4 + orig_tlv_len

RECURSIVE filter_tlvs(_, _, _, _, _, _, _)
\* The loop "while n < orig_len" of filter_cmd with the input at offset pos.
\* attrs is the history of the attributes read so far: for each its type,
\* declared length, the value as read and the value emitted.  hasher is the
\* state of the hasher object filter_cmd was given.
filter_tlvs(infile, pos, n, orig_len, new_data, hasher, attrs) ==
    IF ~(n < orig_len)
    THEN [raised |-> "", pos |-> pos, n |-> n, new_data |-> new_data, attrs |-> attrs,
          hasher |-> hasher]
    ELSE
    LET tlv_header == read(infile, pos, 4) IN
    IF Len(tlv_header) # 4
    THEN [raised |-> "struct.error", pos |-> pos + Len(tlv_header), n |-> n,
          new_data |-> new_data, attrs |-> attrs, hasher |-> hasher]
    ELSE
    LET tlv_type == from_bytes(SubSeq(tlv_header, 1, 2))
        orig_tlv_len == from_bytes(SubSeq(tlv_header, 3, 4))
        orig_tlv_value == read(infile, pos + 4, orig_tlv_len)
        value == new_tlv_value(tlv_type, orig_tlv_len, orig_tlv_value, hasher)
        attr == [type |-> tlv_type, len |-> orig_tlv_len,
                 value |-> orig_tlv_value, new_value |-> value]
        \* the caller's hasher object after the call of filter_path, if any
        after == IF tlv_type \in PathAttrs
                 THEN shared_hasher(orig_tlv_value, hasher)
                 ELSE hasher
    IN  IF Len(value) > USHRT_MAX
        THEN [raised |-> "struct.error", pos |-> pos + 4 + Len(orig_tlv_value),
              n |-> n + tlv_size(orig_tlv_len), new_data |-> new_data,
              attrs |-> Append(attrs, attr), hasher |-> after]
        ELSE filter_tlvs(infile, pos + 4 + Len(orig_tlv_value), n + tlv_size(orig_tlv_len),
                         orig_len,
                         new_data \o pack_HH(tlv_type, Len(value)) \o value,
                         after, Append(attrs, attr))

\* A variant that checksums the payload without the command header.
new_crc_payload(new_data, cmd) == crc32c(new_data)

\* new_crc = crc32c(struct.pack('<IHI', len(new_data), cmd, 0) + new_data).
new_crc(new_data, cmd) ==
    crc32c(pack_IHI(Len(new_data), cmd, <<0, 0, 0, 0>>) \o new_data)

\* A variant that leaves the checksum field of the written header zero.
written_cmd_zero_crc(cmd, new_data) ==
    pack_IHI(Len(new_data), cmd, <<0, 0, 0, 0>>) \o new_data

\* The two outfile.write calls that end filter_cmd.
written_cmd(cmd, new_data) ==
    pack_IHI(Len(new_data), cmd, new_crc(new_data, cmd)) \o new_data

\* A variant that never reports the end of the stream.
returns_false(cmd) == "False"

\* "return cmd == BtrfsSendCmd.END".
returns(cmd) == IF cmd = CMD_END THEN "True" ELSE "False"

\* filter_cmd from the test for the elided commands on: header is the ten
\* bytes of the command header, which end at offset pos.
filter_cmd_body(infile, pos, hasher, header) ==
    LET orig_len == unpack_I(SubSeq(header, 1, 4))
        cmd == from_bytes(SubSeq(header, 5, 6))
        orig_crc == SubSeq(header, 7, 10)
        rec == [start |-> pos - 10, orig_len |-> orig_len, cmd |-> cmd,
                orig_crc |-> orig_crc, attrs |-> <<>>, n |-> 0]
    IN
    IF cmd \in ElidedCmds
    THEN [returned |-> "None", raised |-> "",
          pos |-> pos + Len(read(infile, pos, orig_len)),
          written |-> <<>>, cmd |-> rec, hasher |-> hasher]
    ELSE
    LET t == filter_tlvs(infile, pos, 0, orig_len, <<>>, hasher, <<>>)
        rec2 == [rec EXCEPT !.attrs = t.attrs, !.n = t.n]
    IN
    IF t.raised # ""
    THEN [returned |-> "raise", raised |-> t.raised, pos |-> t.pos,
          written |-> <<>>, cmd |-> rec2, hasher |-> t.hasher]
    ELSE [returned |-> returns(cmd), raised |-> "",
          pos |-> t.pos, written |-> written_cmd(cmd, t.new_data),
          cmd |-> rec2, hasher |-> t.hasher]

\* A variant that takes a short command header for nothing to do.
no_header_ignored(pos, header, hasher) ==
    [returned |-> "None", raised |-> "", pos |-> pos + Len(header),
     written |-> <<>>, hasher |-> hasher,
     cmd |-> [start |-> pos, orig_len |-> 0, cmd |-> 0, orig_crc |-> <<>>,
              attrs |-> <<>>, n |-> 0]]

\* The record of a call that raised on its first line.
no_header(pos, header, hasher) ==
    [returned |-> "raise", raised |-> "struct.error", pos |-> pos + Len(header),
     written |-> <<>>, hasher |-> hasher,
     cmd |-> [start |-> pos, orig_len |-> 0, cmd |-> 0, orig_crc |-> <<>>,
              attrs |-> <<>>, n |-> 0]]

\* A variant that checks the stored checksum against the command's wire bytes
\* and raises on a mismatch.
filter_cmd_verifying(infile, pos, hasher) ==
    LET header == read(infile, pos, 10) IN
    IF Len(header) # 10 THEN no_header(pos, header, hasher)
    ELSE LET r == filter_cmd_body(infile, pos + 10, hasher, header)
             payload == read(infile, pos + 10, r.cmd.orig_len)
         IN  IF crc32c(SubSeq(header, 1, 6) \o <<0, 0, 0, 0>> \o payload) # r.cmd.orig_crc
             THEN [r EXCEPT !.returned = "raise", !.raised = "ValueError",
                            !.written = <<>>]
             ELSE r

\* filter_cmd(infile, outfile, hasher) with the input at offset pos.  The
\* result holds what the call returned ("True", "False", "None") or that it
\* raised, the new input offset, the bytes it wrote, the state it leaves the
\* hasher object in, and the record of what was read: the command header's
\* fields, the attributes and the final count n.
filter_cmd(infile, pos, hasher) ==
    LET header == read(infile, pos, 10) IN
    IF Len(header) # 10 THEN no_header(pos, header, hasher)
    ELSE filter_cmd_body(infile, pos + 10, hasher, header)

RECURSIVE filter_cmds(_, _, _, _)
\* "while not done: done = filter_cmd(infile, outfile, hasher)" with the input
\* at offset pos and written the bytes written so far.
filter_cmds(infile, pos, hasher, written) ==
    LET r == filter_cmd(infile, pos, hasher)
    IN  IF r.returned = "raise"
        THEN [raised |-> r.raised, pos |-> r.pos, written |-> written \o r.written]
        ELSE IF r.returned = "True"
        THEN [raised |-> "", pos |-> r.pos, written |-> written \o r.written]
        ELSE filter_cmds(infile, r.pos, r.hasher, written \o r.written)

\* A variant that copies the version without testing it.
filter_header_any_version(infile) ==
    LET magic == read(infile, 0, Len(BTRFS_SEND_STREAM_MAGIC))
        version_bytes == read(infile, Len(magic), 4)
    IN
    IF magic # BTRFS_SEND_STREAM_MAGIC
    THEN [raised |-> "ValueError", pos |-> Len(magic), written |-> <<>>]
    ELSE IF Len(version_bytes) # 4
    THEN [raised |-> "struct.error", pos |-> Len(magic) + Len(version_bytes),
          written |-> magic]
    ELSE [raised |-> "", pos |-> Len(magic) + 4, written |-> magic \o version_bytes]

\* filter_header(infile, outfile) on an input at offset 0: what it wrote, the
\* new offset and the exception it raised, if any.
filter_header(infile) ==
    LET magic == read(infile, 0, Len(BTRFS_SEND_STREAM_MAGIC))
        version_bytes == read(infile, Len(magic), 4)
    IN
    IF magic # BTRFS_SEND_STREAM_MAGIC
    THEN [raised |-> "ValueError", pos |-> Len(magic), written |-> <<>>]
    ELSE IF Len(version_bytes) # 4
    THEN [raised |-> "struct.error", pos |-> Len(magic) + Len(version_bytes),
          written |-> magic]
    ELSE IF unpack_I(version_bytes) # BTRFS_SEND_STREAM_VERSION
    THEN [raised |-> "ValueError", pos |-> Len(magic) + 4, written |-> magic]
    ELSE [raised |-> "", pos |-> Len(magic) + 4, written |-> magic \o version_bytes]

\* filter_send_stream(infile, outfile, salt) run to its end on a whole input:
\* what it wrote, the offset it read to and the exception that left it, if any.
filter_send_stream(infile, salt) ==
    LET h == filter_header(infile)
    IN  IF h.raised # "" THEN h
        ELSE filter_cmds(infile, h.pos, md5(salt), h.written)

\* -------------------------------------------------------- parse_send_stream

\* The attribute types parse_send_stream decodes as integers.
IntAttrs ==
    {ATTR_CTRANSID, ATTR_INO, ATTR_SIZE, ATTR_MODE, ATTR_UID, ATTR_GID,
     ATTR_FILE_OFFSET, ATTR_CLONE_CTRANSID, ATTR_CLONE_OFFSET, ATTR_CLONE_LEN}

\* The attribute types parse_send_stream decodes as timestamps.
TimeAttrs == {ATTR_CTIME, ATTR_MTIME, ATTR_ATIME, ATTR_OTIME}

RECURSIVE int_digits(_)
\* An unbounded Python int, kept as its base-256 digits, least significant
\* first, without leading zero digits: int.from_bytes(b, "little").
int_digits(b) ==
    IF b = <<>> THEN <<>>
    ELSE IF b[Len(b)] = 0 THEN int_digits(SubSeq(b, 1, Len(b) - 1))
    ELSE b

\* Byte i (from 1) of the little-endian integer b, 0 past its end.
byte_of(b, i) == IF i <= Len(b) THEN b[i] ELSE 0

\* A variant that takes the device number for major << 8 | minor.
decode_rdev_old(attr_value) ==
    [kind |-> "DevT",
     major |-> byte_of(attr_value, 2),
     minor |-> byte_of(attr_value, 1)]

\* DevT((dev & 0xFFF00) >> 8, (dev & 0xFF) | ((dev >> 12) & 0xFFF00)) of
\* dev = int.from_bytes(attr_value, "little").
decode_rdev(attr_value) ==
    LET dev_low == byte_of(attr_value, 1) + 256 * byte_of(attr_value, 2)
                   + 65536 * byte_of(attr_value, 3)
        \* dev >> 12, its bits 0..19
        dev_shr12 == (byte_of(attr_value, 2) + 256 * byte_of(attr_value, 3)
                      + 65536 * byte_of(attr_value, 4)) \div 16
    IN  [kind |-> "DevT",
         major |-> AndNat(dev_low, 1048320) \div 256,
         minor |-> OrNat(AndNat(dev_low, 255), AndNat(dev_shr12, 1048320))]

\* A variant that rejects an attribute type outside the enumeration.
decode_attr_strict(attr_type, attr_value) ==
    IF attr_type > ATTR_CLONE_LEN
    THEN [raised |-> "ValueError", value |-> [kind |-> "bytes", bytes |-> attr_value]]
    ELSE IF attr_type \in IntAttrs
    THEN [raised |-> "", value |-> [kind |-> "int", int |-> int_digits(attr_value)]]
    ELSE [raised |-> "", value |-> [kind |-> "bytes", bytes |-> attr_value]]

\* The value of Attr(attr_type, attr_value) after the decoding by type;
\* raised is set when struct.unpack("<QI", attr_value) raises.
decode_attr(attr_type, attr_value) ==
    IF attr_type \in IntAttrs
    THEN [raised |-> "", value |-> [kind |-> "int", int |-> int_digits(attr_value)]]
    ELSE IF attr_type = ATTR_RDEV
    THEN [raised |-> "", value |-> decode_rdev(attr_value)]
    ELSE IF attr_type \in TimeAttrs
    THEN IF Len(attr_value) # 12
         THEN [raised |-> "struct.error", value |-> [kind |-> "bytes", bytes |-> attr_value]]
         ELSE [raised |-> "",
               value |-> [kind |-> "Timestamp",
                          sec |-> int_digits(SubSeq(attr_value, 1, 8)),
                          nsec |-> int_digits(SubSeq(attr_value, 9, 12))]]
    ELSE [raised |-> "", value |-> [kind |-> "bytes", bytes |-> attr_value]]

RECURSIVE parse_attrs(_, _, _, _, _)
\* The loop "while n < cmd_len" of parse_send_stream.
parse_attrs(file, pos, n, cmd_len, attrs) ==
    IF ~(n < cmd_len)
    THEN [raised |-> "", pos |-> pos, n |-> n, attrs |-> attrs]
    ELSE
    LET attr_header == read(file, pos, 4) IN
    IF Len(attr_header) # 4
    THEN [raised |-> "struct.error", pos |-> pos + Len(attr_header), n |-> n,
          attrs |-> attrs]
    ELSE
    LET attr_type == from_bytes(SubSeq(attr_header, 1, 2))
        attr_len == from_bytes(SubSeq(attr_header, 3, 4))
        attr_value == read(file, pos + 4, attr_len)
        d == decode_attr(attr_type, attr_value)
    IN  IF d.raised # ""
        THEN [raised |-> d.raised, pos |-> pos + 4 + Len(attr_value),
              n |-> n + 4 + attr_len, attrs |-> attrs]
        ELSE parse_attrs(file, pos + 4 + Len(attr_value), n + 4 + attr_len, cmd_len,
                         Append(attrs, [type |-> attr_type, len |-> attr_len,
                                        value |-> d.value]))

\* A variant that checks the stored checksum against the command's wire bytes
\* and raises on a mismatch.
parse_cmd_verifying(file, pos) ==
    LET header == read(file, pos, 10) IN
    IF Len(header) # 10
    THEN [raised |-> "struct.error", pos |-> pos + Len(header), yields |-> <<>>,
          break |-> FALSE]
    ELSE
    LET cmd_len == unpack_I(SubSeq(header, 1, 4))
        cmd == from_bytes(SubSeq(header, 5, 6))
        crc == SubSeq(header, 7, 10)
        a == parse_attrs(file, pos + 10, 0, cmd_len, <<>>)
    IN  IF a.raised # ""
        THEN [raised |-> a.raised, pos |-> a.pos, yields |-> <<>>, break |-> FALSE]
        ELSE IF crc # crc32c(SubSeq(header, 1, 6) \o <<0, 0, 0, 0>>
                            \o read(file, pos + 10, cmd_len))
        THEN [raised |-> "ValueError", pos |-> a.pos, yields |-> <<>>, break |-> FALSE]
        ELSE [raised |-> "", pos |-> a.pos,
              yields |-> <<[type |-> cmd, attrs |-> a.attrs, crc |-> crc,
                            cmd_len |-> cmd_len, n |-> a.n,
                            start |-> pos, end |-> a.pos]>>,
              break |-> cmd = CMD_END]

\* One turn of the "while True" loop of parse_send_stream with the input at
\* offset pos: the Cmd it yields (with the declared length, the final count n
\* and the offsets at which its reading started and ended beside it), or the
\* exception raised.
parse_cmd(file, pos) ==
    LET header == read(file, pos, 10) IN
    IF Len(header) # 10
    THEN [raised |-> "struct.error", pos |-> pos + Len(header), yields |-> <<>>,
          break |-> FALSE]
    ELSE
    LET cmd_len == unpack_I(SubSeq(header, 1, 4))
        cmd == from_bytes(SubSeq(header, 5, 6))
        crc == SubSeq(header, 7, 10)
        a == parse_attrs(file, pos + 10, 0, cmd_len, <<>>)
    IN  IF a.raised # ""
        THEN [raised |-> a.raised, pos |-> a.pos, yields |-> <<>>, break |-> FALSE]
        ELSE [raised |-> "", pos |-> a.pos,
              yields |-> <<[type |-> cmd, attrs |-> a.attrs, crc |-> crc,
                            cmd_len |-> cmd_len, n |-> a.n,
                            start |-> pos, end |-> a.pos]>>,
              break |-> cmd = CMD_END]

\* The part of parse_send_stream before its loop: the exception it raises, if
\* any, and the offset it leaves the input at.
parse_header(file) ==
    LET magic == read(file, 0, Len(BTRFS_SEND_STREAM_MAGIC))
        version_bytes == read(file, Len(magic), 4)
    IN
    IF magic # BTRFS_SEND_STREAM_MAGIC
    THEN [raised |-> "ValueError", pos |-> Len(magic)]
    ELSE IF Len(version_bytes) # 4
    THEN [raised |-> "struct.error", pos |-> Len(magic) + Len(version_bytes)]
    ELSE IF unpack_I(version_bytes) # BTRFS_SEND_STREAM_VERSION
    THEN [raised |-> "ValueError", pos |-> Len(magic) + 4]
    ELSE [raised |-> "", pos |-> Len(magic) + 4]

\* ------------------------------------------------------------ the inputs
(***************************************************************************)
(* An input is any byte string.  The inputs explored are the encodings of  *)
(* up to MaxCmds commands of CmdPool followed by an empty END command,     *)
(* with up to MaxCut bytes cut off the end, behind a good or a bad stream  *)
(* header.  A command of the pool may declare a payload length that is not *)
(* the sum of its attributes (skew) and may store a wrong checksum.        *)
(***************************************************************************)
A(type, value) == [type |-> type, value |-> value]

C(cmd, attrs, skew, bad_crc) ==
    [cmd |-> cmd, attrs |-> attrs, skew |-> skew, bad_crc |-> bad_crc]

\* A command type and an attribute type that are in neither enumeration.
CMD_UNKNOWN == CMD_UPDATE_EXTENT + 1
ATTR_UNKNOWN == ATTR_CLONE_LEN + 1

\* rename a/b -> a/c
RenameCmd ==
    C(CMD_RENAME, <<A(ATTR_PATH, <<97, 47, 98>>), A(ATTR_PATH_TO, <<97, 47, 99>>)>>, 0, FALSE)

CmdPool ==
    { RenameCmd,
      \* mkfile ./../bcd/
      C(CMD_MKFILE, <<A(ATTR_PATH, <<46, 47, 46, 46, 47, 98, 99, 100, 47>>),
                      A(ATTR_INO, <<7, 1, 0, 0, 0, 0, 0, 0>>)>>, 0, FALSE),
      C(CMD_WRITE, <<A(ATTR_DATA, <<120, 121, 122>>)>>, 0, FALSE),
      C(CMD_SET_XATTR, <<A(ATTR_XATTR_NAME, <<117>>), A(ATTR_XATTR_DATA, <<118, 119>>)>>, 0, FALSE),
      C(CMD_REMOVE_XATTR, <<A(ATTR_XATTR_NAME, <<117>>)>>, 0, FALSE),
      \* the stored checksum is wrong
      C(CMD_UTIMES, <<A(ATTR_UID, <<232, 3, 0, 0, 0, 0, 0, 0>>),
                      A(ATTR_MTIME, <<5, 0, 0, 0, 0, 0, 0, 0, 9, 0, 0, 0>>)>>, 0, TRUE),
      C(CMD_UNKNOWN, <<A(ATTR_UNKNOWN, <<9>>), A(ATTR_XATTR_NAME, <<97, 47, 98>>)>>, 0, FALSE),
      \* an END command with a payload
      C(CMD_END, <<A(ATTR_UNKNOWN, <<9, 9>>)>>, 0, FALSE),
      \* the attributes run past the declared length
      C(CMD_MKFILE, <<A(ATTR_INO, <<1, 2, 3>>)>>, -2, FALSE),
      \* the attributes stop short of the declared length
      C(CMD_TRUNCATE, <<A(ATTR_SIZE, <<>>)>>, 4, FALSE),
      \* truncate to 4096: nothing to hash, redact or elide
      C(CMD_TRUNCATE, <<A(ATTR_SIZE, <<0, 16, 0, 0, 0, 0, 0, 0>>)>>, 0, FALSE),
      \* mknod of device 8:257, whose number is 0x100801
      C(CMD_MKNOD, <<A(ATTR_RDEV, <<1, 8, 16, 0, 0, 0, 0, 0>>),
                     A(ATTR_MODE, <<164, 97, 0, 0, 0, 0, 0, 0>>)>>, 0, FALSE) }

RECURSIVE EncodeAttrs(_, _)
EncodeAttrs(attrs, i) ==
    IF i > Len(attrs) THEN <<>>
    ELSE pack_HH(attrs[i].type, Len(attrs[i].value)) \o attrs[i].value
         \o EncodeAttrs(attrs, i + 1)

\* The wire bytes of a command of the pool.
EncodeCmd(c) ==
    LET payload == EncodeAttrs(c.attrs, 1)
        length == Len(payload) + c.skew
        crc == crc32c(pack_IHI(length, c.cmd, <<0, 0, 0, 0>>) \o payload)
        stored == IF c.bad_crc THEN <<Xor8[crc[1]][1], crc[2], crc[3], crc[4]>> ELSE crc
    IN  pack_IHI(length, c.cmd, stored) \o payload

EndCmd == C(CMD_END, <<>>, 0, FALSE)

\* The path a/a/.../a of DeepComponents components.
DeepPath ==
    <<>> \o [i \in 1..(2 * DeepComponents - 1) |-> IF i % 2 = 1 THEN 97 ELSE SLASH]

\* mkfile a/a/.../a
DeepCmd == C(CMD_MKFILE, <<A(ATTR_PATH, DeepPath)>>, 0, FALSE)

Encoded == [c \in CmdPool \cup {EndCmd, DeepCmd} |-> EncodeCmd(c)]

RECURSIVE EncodeCmds(_, _)
EncodeCmds(cmds, i) ==
    IF i > Len(cmds) THEN <<>> ELSE Encoded[cmds[i]] \o EncodeCmds(cmds, i + 1)

GoodHeader == BTRFS_SEND_STREAM_MAGIC \o pack_I(BTRFS_SEND_STREAM_VERSION)

Headers ==
    { GoodHeader,
      \* a wrong magic
      <<66>> \o SubSeq(GoodHeader, 2, 17),
      \* version 2
      BTRFS_SEND_STREAM_MAGIC \o pack_I(2) }

\* The command sequences of the inputs, each followed by END: up to MaxCmds
\* commands of the pool, or the command with the deep path, alone or after a
\* rename.
CmdSeqs ==
    UNION {[1..k -> CmdPool] : k \in 0..MaxCmds} \cup {<<DeepCmd>>, <<RenameCmd, DeepCmd>>}

\* The inputs: a header, a command sequence and END, with up to MaxCut bytes
\* cut off the end; a wrong header and a deep path come whole, and a wrong
\* header with END alone.
Streams ==
    { LET whole == hcc[1] \o EncodeCmds(hcc[2], 1) \o Encoded[EndCmd]
      IN  SubSeq(whole, 1, Len(whole) - hcc[3]) :
        hcc \in { x \in Headers \X CmdSeqs \X (0..MaxCut) :
                    /\ x[1] # GoodHeader => (x[2] = <<>> /\ x[3] = 0)
                    /\ x[2] \in {<<DeepCmd>>, <<RenameCmd, DeepCmd>>} => x[3] = 0 } }

\* The salts of the runs explored (os.urandom(8) in main).
Salts == {<<0, 0, 0, 0, 0, 0, 0, 0>>, <<1, 2, 3, 4, 5, 6, 7, 8>>}

\* ---------------------------------------------------------------- the state

VARIABLES
    prog,       \* which script runs: "sanitize" or "parse"
    infile,     \* the bytes of standard input
    pos,        \* the offset of infile: the bytes read so far
    outfile,    \* the bytes written to standard output by the sanitizer
    salt,       \* the argument salt of filter_send_stream
    hasher,     \* the hasher of filter_send_stream
    pc,         \* "header", "cmd", "done", or "raised" once an exception left
    raised,     \* the exception raised, "" if none
    calls,      \* history: one record per call of filter_cmd, in order
    yielded,    \* the Cmds parse_send_stream has yielded, in order
    zeroes_crc, \* btrfs_checksum_zeroes: crc of main, a 32-bit word
    zeroes_i,   \* btrfs_checksum_zeroes: i of main
    stdout      \* btrfs_checksum_zeroes: the lines printed, in order

\* The variables of btrfs_checksum_zeroes.py; the stream programs have none
\* of them.
zeroes_vars == <<zeroes_crc, zeroes_i, stdout>>

vars == <<prog, infile, pos, outfile, salt, hasher, pc, raised, calls, yielded,
          zeroes_crc, zeroes_i, stdout>>

Init ==
    /\ infile \in Streams
    /\ \/ prog = "sanitize" /\ salt \in Salts
       \/ prog = "parse" /\ salt = <<>>
    /\ hasher = md5(salt)
    /\ pos = 0
    /\ outfile = <<>>
    /\ pc = "header"
    /\ raised = ""
    /\ calls = <<>>
    /\ yielded = <<>>
    /\ zeroes_crc = <<>>
    /\ zeroes_i = 0
    /\ stdout = <<>>

\* filter_send_stream: the call of filter_header.
FilterHeader ==
    /\ prog = "sanitize"
    /\ pc = "header"
    /\ LET r == filter_header(infile)
       IN  /\ pos' = r.pos
           /\ outfile' = outfile \o r.written
           /\ raised' = r.raised
           /\ pc' = IF r.raised # "" THEN "raised" ELSE "cmd"
    /\ UNCHANGED <<prog, infile, salt, hasher, calls, yielded>>
    /\ UNCHANGED zeroes_vars

RECURSIVE Writes(_, _)
\* The bytes written by calls[i..], in order.
Writes(cs, i) == IF i > Len(cs) THEN <<>> ELSE cs[i].written \o Writes(cs, i + 1)

\* A variant that keeps what filter_cmd writes in memory and writes it all
\* when the END command has been processed.
FilterCmd_buffered ==
    /\ prog = "sanitize"
    /\ pc = "cmd"
    /\ LET r == filter_cmd(infile, pos, hasher)
       IN  /\ pos' = r.pos
           /\ outfile' = IF r.returned = "True"
                         THEN outfile \o Writes(calls, 1) \o r.written
                         ELSE outfile
           /\ raised' = r.raised
           /\ pc' = IF r.returned = "raise" THEN "raised"
                    ELSE IF r.returned = "True" THEN "done"
                    ELSE "cmd"
           /\ calls' = Append(calls, [returned |-> r.returned, end |-> r.pos,
                                      written |-> r.written, cmd |-> r.cmd])
           /\ hasher' = r.hasher
    /\ UNCHANGED <<prog, infile, salt, yielded>>
    /\ UNCHANGED zeroes_vars

\* filter_send_stream: one turn of "while not done: done = filter_cmd(...)".
FilterCmd ==
    /\ prog = "sanitize"
    /\ pc = "cmd"
    /\ LET r == filter_cmd(infile, pos, hasher)
       IN  /\ pos' = r.pos
           /\ outfile' = outfile \o r.written
           /\ raised' = r.raised
           /\ pc' = IF r.returned = "raise" THEN "raised"
                    ELSE IF r.returned = "True" THEN "done"
                    ELSE "cmd"
           /\ calls' = Append(calls, [returned |-> r.returned, end |-> r.pos,
                                      written |-> r.written, cmd |-> r.cmd])
           /\ hasher' = r.hasher
    /\ UNCHANGED <<prog, infile, salt, yielded>>
    /\ UNCHANGED zeroes_vars

\* parse_send_stream up to its loop.
ParseHeader ==
    /\ prog = "parse"
    /\ pc = "header"
    /\ LET r == parse_header(infile)
       IN  /\ pos' = r.pos
           /\ raised' = r.raised
           /\ pc' = IF r.raised # "" THEN "raised" ELSE "cmd"
    /\ UNCHANGED <<prog, infile, outfile, salt, hasher, calls, yielded>>
    /\ UNCHANGED zeroes_vars

\* parse_send_stream: one turn of its loop, to the yield and the test for END.
ParseCmd ==
    /\ prog = "parse"
    /\ pc = "cmd"
    /\ LET r == parse_cmd(infile, pos)
       IN  /\ pos' = r.pos
           /\ raised' = r.raised
           /\ yielded' = yielded \o r.yields
           /\ pc' = IF r.raised # "" THEN "raised"
                    ELSE IF r.break THEN "done"
                    ELSE "cmd"
    /\ UNCHANGED <<prog, infile, outfile, salt, hasher, calls>>
    /\ UNCHANGED zeroes_vars

Next == FilterHeader \/ FilterCmd \/ ParseHeader \/ ParseCmd

Spec == Init /\ [][Next]_vars

\* A variant in which the generator, resumed after END, takes another turn of
\* its loop.
ParseExhausted_reads ==
    /\ prog = "parse"
    /\ pc = "done"
    /\ LET r == parse_cmd(infile, pos)
       IN  /\ pos' = r.pos
           /\ raised' = IF r.raised # "" THEN r.raised ELSE "StopIteration"
           /\ yielded' = yielded \o r.yields
    /\ UNCHANGED <<prog, infile, outfile, salt, hasher, pc, calls>>
    /\ UNCHANGED zeroes_vars

\* The consumer asks the generator parse_send_stream for a command after END
\* was yielded: resumed after the yield, the generator leaves its loop by the
\* break and returns, which the caller of next() sees as StopIteration, as it
\* does on every call after that.
ParseExhausted ==
    /\ prog = "parse"
    /\ pc = "done"
    /\ raised' = "StopIteration"
    /\ UNCHANGED <<prog, infile, pos, outfile, salt, hasher, pc, calls, yielded>>
    /\ UNCHANGED zeroes_vars

\* The programs with the reader driven past its end.
NextDriven == Next \/ ParseExhausted

SpecDriven == Init /\ [][NextDriven]_vars

\* ------------------------------------------------- btrfs_checksum_zeroes.py
(***************************************************************************)
(* btrfs_checksum_zeroes.py is a program of its own: it reads nothing and  *)
(* prints, for ever, the checksum of blocks of zero bytes.  Its table is   *)
(* built by the same eight rounds per entry as crc32c_table.  A line of    *)
(* its output is kept as the pair of numbers it shows.                     *)
(***************************************************************************)
\* The block sizes followed: the loop has no exit, so the model stops at this one.
MaxBlock == 130

\* crc = 0xFFFFFFFF
ZEROES_CRC_INIT == <<255, 255, 255, 255>>

\* A variant that takes every even i for a power of two.
is_power_of_two_even(n) == n % 2 = 0

\* i & (i - 1) == 0
is_power_of_two(n) == AndNat(n, n - 1) = 0

\* A variant that prints the accumulator as it is carried.
zeroes_line_raw(n, acc) == [i |-> n, crc |-> acc]

\* The line printed for i: i and crc ^ 0xFFFFFFFF.
zeroes_line(n, acc) == [i |-> n, crc |-> XorW(acc, <<255, 255, 255, 255>>)]

\* main, before its loop.
InitZeroes ==
    /\ prog = "checksum_zeroes"
    /\ infile = <<>>
    /\ salt = <<>>
    /\ hasher = md5(<<>>)
    /\ pos = 0
    /\ outfile = <<>>
    /\ pc = "loop"
    /\ raised = ""
    /\ calls = <<>>
    /\ yielded = <<>>
    /\ zeroes_crc = ZEROES_CRC_INIT
    /\ zeroes_i = 1
    /\ stdout = <<>>

\* One turn of the while True loop of main.
ZeroesStep ==
    /\ prog = "checksum_zeroes"
    /\ pc = "loop"
    /\ zeroes_i <= MaxBlock
    /\ zeroes_crc' = XorW(Shr8(zeroes_crc), crc32c_table[zeroes_crc[1]])
    /\ stdout' = IF is_power_of_two(zeroes_i)
                 THEN Append(stdout, zeroes_line(zeroes_i, zeroes_crc'))
                 ELSE stdout
    /\ zeroes_i' = zeroes_i + 1
    /\ UNCHANGED <<prog, infile, pos, outfile, salt, hasher, pc, raised, calls, yielded>>

NextZeroes == ZeroesStep

SpecZeroes == InitZeroes /\ [][NextZeroes]_vars

\* ------------------------------------------- reading the wire format back
(***************************************************************************)
(* The stream format of section 6 of the specification, used to read back  *)
(* what the sanitizer wrote: a command is a 10-byte header (length, type,  *)
(* checksum) and length bytes of payload, a payload a run of attributes of *)
(* a 4-byte header (type, length) and length bytes of value.               *)
(***************************************************************************)
RECURSIVE WireTlvs(_, _)
\* The attributes of a payload from offset p, by their declared lengths.
WireTlvs(payload, p) ==
    IF p + 4 > Len(payload) THEN <<>>
    ELSE LET len == from_bytes(SubSeq(payload, p + 3, p + 4))
         IN  <<[type |-> from_bytes(SubSeq(payload, p + 1, p + 2)), len |-> len,
                value |-> read(payload, p + 4, len)]>>
             \o WireTlvs(payload, p + 4 + len)

RECURSIVE WholeTlvs(_, _)
\* The payload from offset p is a whole sequence of attributes: their headers
\* and declared lengths sum to its length exactly.
WholeTlvs(payload, p) ==
    \/ p = Len(payload)
    \/ /\ p + 4 <= Len(payload)
       /\ LET len == from_bytes(SubSeq(payload, p + 3, p + 4))
          IN  p + 4 + len <= Len(payload) /\ WholeTlvs(payload, p + 4 + len)

RECURSIVE WireCmds(_, _)
\* The commands of b from offset p, by their declared lengths.
WireCmds(b, p) ==
    IF p + 10 > Len(b) THEN <<>>
    ELSE LET length == unpack_I(SubSeq(b, p + 1, p + 4))
             payload == read(b, p + 10, length)
         IN  <<[length |-> length, cmd |-> from_bytes(SubSeq(b, p + 5, p + 6)),
                crc |-> SubSeq(b, p + 7, p + 10), payload |-> payload]>>
             \o WireCmds(b, p + 10 + Len(payload))

\* The checksummed bytes of a command read back: its header with the checksum
\* field zeroed, then its payload.
Checksummed(c) == pack_IHI(c.length, c.cmd, <<0, 0, 0, 0>>) \o c.payload

\* A command read back is well formed.
WellFormedCmd(c) ==
    /\ c.length = Len(c.payload)
    /\ WholeTlvs(c.payload, 0)
    /\ c.crc = crc32c(Checksummed(c))

RECURSIVE SumLen(_, _)
\* The payload bytes of cmds[i..].
SumLen(cmds, i) == IF i > Len(cmds) THEN 0 ELSE Len(cmds[i].payload) + SumLen(cmds, i + 1)

\* b is a well-formed stream: the header, then well-formed commands of which
\* the last, and only the last, is END.
WellFormedStream(b) ==
    /\ Len(b) >= 17
    /\ SubSeq(b, 1, 17) = BTRFS_SEND_STREAM_MAGIC \o pack_I(BTRFS_SEND_STREAM_VERSION)
    /\ LET cmds == WireCmds(b, 17)
       IN  /\ Len(cmds) >= 1
           /\ \A i \in 1..Len(cmds) :
                 /\ WellFormedCmd(cmds[i])
                 /\ (cmds[i].cmd = CMD_END) <=> (i = Len(cmds))
           \* nothing is left over after the last command
           /\ Len(b) = 17 + 10 * Len(cmds) + SumLen(cmds, 1)

\* The commands the sanitizer has written, read back from outfile.
OutCmds == IF Len(outfile) < 17 THEN <<>> ELSE WireCmds(outfile, 17)

\* The calls of filter_cmd that wrote a command, in order.
IsEmitted(call) == call.returned \in {"True", "False"}
Emitted == SelectSeq(calls, IsEmitted)

\* The calls of filter_cmd that read a whole command header.
HasHeader(call) == Len(call.cmd.orig_crc) = 4

\* The payload of the input command of a call: the orig_len bytes that follow
\* its header, or those of them the input holds.
InPayload(call) == read(infile, call.cmd.start + 10, call.cmd.orig_len)

\* An attribute of a call whose value was read short of its declared length.
ShortValue(call) == \E j \in 1..Len(call.cmd.attrs) :
                       Len(call.cmd.attrs[j].value) < call.cmd.attrs[j].len

\* The reflected CRC with polynomial 0x82F63B78, bit at a time: each byte is
\* xored into the low byte of the accumulator, which is then shifted right
\* eight times, the polynomial xored in whenever a one is shifted out.
RECURSIVE ReflectedBits(_, _)
ReflectedBits(acc, k) ==
    IF k = 0 THEN acc
    ELSE LET shifted == Shr1(acc)
         IN  ReflectedBits(IF acc[1] % 2 = 1 THEN XorW(shifted, <<120, 59, 246, 130>>)
                           ELSE shifted,
                           k - 1)

RECURSIVE ReflectedCrc(_, _, _, _)
\* The accumulator after b[lo..hi], from acc.
ReflectedCrc(acc, b, lo, hi) ==
    IF lo > hi THEN acc
    ELSE IF lo = hi
    THEN ReflectedBits(<<Xor8[acc[1]][b[lo]], acc[2], acc[3], acc[4]>>, 8)
    ELSE LET mid == (lo + hi) \div 2
             half == ReflectedCrc(acc, b, lo, mid)
         IN  IF Len(half) = 4 THEN ReflectedCrc(half, b, mid + 1, hi) ELSE half

ALL_ONES == <<255, 255, 255, 255>>

\* ------------------------------------------------------------------ claims

\* C1: whenever filter_send_stream returns normally, the bytes it wrote form a
\* well-formed stream on their own: the 17-byte header, then commands whose
\* length field is the number of payload bytes written, whose payload is a
\* whole sequence of attributes, whose checksum field is the checksum of the
\* written header (checksum field zeroed) and payload, and of which the last,
\* and only the last, is END.
C1_OutputWellFormed ==
    (prog = "sanitize" /\ pc = "done") => WellFormedStream(outfile)

\* C1's case: a run that returned normally after writing several commands, one
\* of them with a hashed path (so with a payload length that changed), from an
\* input whose lengths do not add up.
C1_Witness ==
    /\ prog = "sanitize" /\ pc = "done"
    /\ Len(OutCmds) >= 3
    /\ \E i \in 1..Len(calls) :
          /\ calls[i].cmd.n > calls[i].cmd.orig_len
          /\ IsEmitted(calls[i])
    /\ \E i \in 1..Len(calls) : \E j \in 1..Len(calls[i].cmd.attrs) :
          /\ calls[i].cmd.attrs[j].type \in PathAttrs
          /\ Len(calls[i].cmd.attrs[j].new_value) # calls[i].cmd.attrs[j].len

\* C2, as claimed: the checksum written into each emitted command is the
\* reflected CRC (polynomial 0x82F63B78) of the header with the checksum field
\* zeroed and the payload, the accumulator seeded with 0xFFFFFFFF and the
\* final accumulator xored with 0xFFFFFFFF.
C2_SeededAllOnes ==
    \A i \in 1..Len(OutCmds) :
        LET b == Checksummed(OutCmds[i])
        IN  OutCmds[i].crc = XorW(ReflectedCrc(ALL_ONES, b, 1, Len(b)), ALL_ONES)

\* C2, amended: the checksum written into each emitted command is the
\* reflected CRC (polynomial 0x82F63B78) of the header with the checksum field
\* zeroed and the payload, the accumulator seeded with 0 and the final
\* accumulator written as it is, with no final xor.
C2_SeededZero ==
    \A i \in 1..Len(OutCmds) :
        LET b == Checksummed(OutCmds[i])
        IN  OutCmds[i].crc = ReflectedCrc(<<0, 0, 0, 0>>, b, 1, Len(b))

\* C2's case: a command with a payload has been written.
C2_Witness ==
    \E i \in 1..Len(OutCmds) : Len(OutCmds[i].payload) > 4

\* The stored checksum of a call's input command is not the checksum of its
\* wire bytes (its header with the checksum field zeroed, then its payload).
StoredCrcWrong(call) ==
    /\ HasHeader(call)
    /\ call.cmd.orig_crc
         # crc32c(pack_IHI(call.cmd.orig_len, call.cmd.cmd, <<0, 0, 0, 0>>) \o InPayload(call))

\* C3, as claimed: an input command whose stored checksum is not the checksum
\* of its wire bytes makes the sanitizer abort, with no bytes written for that
\* command or any later one (so the call raises).
C3_AbortsOnChecksumMismatch ==
    \A i \in 1..Len(calls) :
        StoredCrcWrong(calls[i]) => (calls[i].returned = "raise" /\ calls[i].written = <<>>)

\* C3, amended: the sanitizer never compares the stored checksum of an input
\* command with its wire bytes.  A command whose stored checksum is wrong is
\* handled like any other: if it is not elided and its attributes are read to
\* the declared length, it is emitted, with a checksum recomputed over the
\* emitted header and payload, and the run goes on; filter_cmd raises only
\* struct.error (a short read of a header, or a length struct cannot pack).
C3_ChecksumNotVerified ==
    /\ raised \in {"", "struct.error", "ValueError"}
    /\ (raised = "ValueError") => calls = <<>>
    /\ \A i \in 1..Len(calls) :
          LET call == calls[i] IN
          /\ (call.returned = "raise")
                => (~HasHeader(call) \/ call.cmd.n < call.cmd.orig_len
                    \/ \E j \in 1..Len(call.cmd.attrs) :
                          Len(call.cmd.attrs[j].new_value) > USHRT_MAX)
          /\ (StoredCrcWrong(call) /\ IsEmitted(call))
                => /\ Len(call.written) >= 10
                   /\ SubSeq(call.written, 7, 10)
                        = crc32c(SubSeq(call.written, 1, 6) \o <<0, 0, 0, 0>>
                                 \o SubSeq(call.written, 11, Len(call.written)))

\* C3's case: a command whose only fault is its stored checksum has been
\* emitted, and the command after it too.
C3_Witness ==
    /\ Len(calls) >= 2
    /\ StoredCrcWrong(calls[1])
    /\ calls[1].cmd.n = calls[1].cmd.orig_len
    /\ ~ShortValue(calls[1])
    /\ IsEmitted(calls[1])
    /\ SubSeq(calls[1].written, 7, 10) # calls[1].cmd.orig_crc
    /\ IsEmitted(calls[2])

\* C4, as claimed: a command whose attributes step past the declared payload
\* length without equalling it is rejected: filter_cmd raises and writes
\* nothing for it, and parse_send_stream does not yield it.
C4_LengthMismatchRejected ==
    /\ \A i \in 1..Len(calls) :
          calls[i].cmd.n > calls[i].cmd.orig_len
              => (calls[i].returned = "raise" /\ calls[i].written = <<>>)
    /\ \A i \in 1..Len(yielded) : yielded[i].n = yielded[i].cmd_len

\* C5, as claimed: if the input ends inside a command, here in the middle of
\* an attribute value, filter_cmd raises and writes nothing for that command.
C5_TruncatedValueRejected ==
    \A i \in 1..Len(calls) :
        ShortValue(calls[i]) => (calls[i].returned = "raise" /\ calls[i].written = <<>>)

\* Each component of a split path, from component i on, hashed on its own:
\* the digest of the salted hasher updated with that component alone.
IndependentComponents(components, i, salted) ==
    SubSeq(<<>> \o [k \in 1..Len(components) |->
                      IF components[k] \in {<<>>, <<DOT>>, <<DOT, DOT>>}
                      THEN components[k]
                      ELSE md5_hexdigest(md5_update(salted, components[k]))],
           i, Len(components))

\* The path attributes sanitized so far in the run, each with its new value.
PathsSanitized ==
    {calls[i].cmd.attrs[j] : <<i, j>> \in
        {ij \in (1..Len(calls)) \X (1..4) :
            /\ ij[2] <= Len(calls[ij[1]].cmd.attrs)
            /\ calls[ij[1]].cmd.attrs[ij[2]].type \in PathAttrs}}

\* C6, as claimed: filter_path replaces every component other than '', '.' and
\* '..' with the hex digest of the keyed hash of (salt, that component) alone,
\* whatever components precede it.
C6_ComponentsHashedAlone ==
    \A a \in PathsSanitized :
        a.new_value = join(IndependentComponents(split(a.value), 1, md5(salt)))

\* C7: two paths sanitized in the same run that share a leading sequence of
\* components are rewritten to paths that share the same leading sequence of
\* new components, and each has as many components as before.
C7_SharedPrefixKept ==
    \A a \in PathsSanitized : \A b \in PathsSanitized :
        LET ca == split(a.value)
            cb == split(b.value)
            na == split(a.new_value)
            nb == split(b.new_value)
        IN  /\ Len(na) = Len(ca)
            /\ \A k \in 1..Min(Len(ca), Len(cb)) :
                  SubSeq(ca, 1, k) = SubSeq(cb, 1, k) => SubSeq(na, 1, k) = SubSeq(nb, 1, k)

\* C7's case: two different paths of different commands that share a hashed
\* first component and part after it.
C7_Witness ==
    \E i \in 1..Len(calls) : \E k \in 1..Len(calls) :
        /\ i < k
        /\ Len(calls[i].cmd.attrs) >= 1 /\ Len(calls[k].cmd.attrs) >= 2
        /\ LET a == calls[i].cmd.attrs[1]
               b == calls[k].cmd.attrs[2]
           IN  /\ a \in PathsSanitized /\ b \in PathsSanitized
               /\ a.value # b.value
               /\ Len(split(a.value)) >= 2 /\ Len(split(b.value)) >= 2
               /\ split(a.value)[1] = split(b.value)[1]
               /\ ~kept_component(split(a.value)[1])
               /\ split(a.new_value)[1] = split(b.new_value)[1]
               /\ split(a.new_value)[2] # split(b.new_value)[2]

\* The attribute types the claims name as redacted, the command types they
\* name as elided, and the attribute types they name as path-hashed.
ClaimedRedacted ==
    {ATTR_DATA, ATTR_CTIME, ATTR_MTIME, ATTR_ATIME, ATTR_OTIME, ATTR_UID, ATTR_GID}
ClaimedElided == {CMD_SET_XATTR, CMD_REMOVE_XATTR}
ClaimedHashed == {ATTR_PATH, ATTR_PATH_TO, ATTR_PATH_LINK, ATTR_CLONE_PATH}

\* C8: for every attribute of type DATA, CTIME, MTIME, ATIME, OTIME, UID or
\* GID of a command the sanitizer emits, the emitted command carries, at the
\* same place, an attribute of the same type and the same declared length
\* whose value is all zero bytes; and the emitted checksum is the checksum of
\* the emitted header (checksum field zeroed) and the new payload.
C8_RedactedZeroed ==
    /\ Len(OutCmds) = Len(Emitted)
    /\ \A k \in 1..Len(Emitted) :
          LET attrs == Emitted[k].cmd.attrs
              tlvs == WireTlvs(OutCmds[k].payload, 0)
          IN  /\ Len(tlvs) = Len(attrs)
              /\ OutCmds[k].crc = crc32c(Checksummed(OutCmds[k]))
              /\ \A j \in 1..Len(attrs) :
                    attrs[j].type \in ClaimedRedacted
                        => /\ tlvs[j].type = attrs[j].type
                           /\ tlvs[j].len = attrs[j].len
                           /\ tlvs[j].value = Zeroes(attrs[j].len)

\* C8's case: a sound command with a DATA attribute of bytes that are not zero
\* has been emitted with the bytes zeroed and a checksum that is not the
\* stored one, and a command with a zeroed UID and MTIME too.
C8_Witness ==
    /\ \E k \in 1..Len(Emitted) : \E j \in 1..Len(Emitted[k].cmd.attrs) :
          LET a == Emitted[k].cmd.attrs[j]
          IN  /\ k <= Len(OutCmds)
              /\ a.type = ATTR_DATA
              /\ Len(a.value) = a.len
              /\ a.value # Zeroes(a.len)
              /\ ~StoredCrcWrong(Emitted[k])
              /\ WireTlvs(OutCmds[k].payload, 0)[j].value = Zeroes(a.len)
              /\ OutCmds[k].crc # Emitted[k].cmd.orig_crc
    /\ \E k \in 1..Len(Emitted) :
          /\ Len(Emitted[k].cmd.attrs) = 2
          /\ Emitted[k].cmd.attrs[1].type = ATTR_UID
          /\ Emitted[k].cmd.attrs[2].type = ATTR_MTIME
          /\ Emitted[k].cmd.attrs[2].new_value = Zeroes(12)

\* The calls of filter_cmd that read a command other than SET_XATTR and
\* REMOVE_XATTR and did not raise.
IsOther(call) ==
    HasHeader(call) /\ call.cmd.cmd \notin ClaimedElided /\ call.returned # "raise"
Others == SelectSeq(calls, IsOther)

\* C9: for every command of type SET_XATTR or REMOVE_XATTR the sanitizer
\* writes no bytes, reads the command's 10-byte header and its declared
\* payload length from the input (or what is left of the input, if it ends
\* sooner) and goes on to the next command; the other commands are written in
\* the order they were read.
C9_XattrCmdsElided ==
    /\ \A i \in 1..Len(calls) :
          LET call == calls[i] IN
          (HasHeader(call) /\ call.cmd.cmd \in ClaimedElided)
              => /\ call.written = <<>>
                 /\ call.returned = "None"
                 /\ call.end = IF call.cmd.orig_len <= Len(infile) - call.cmd.start - 10
                               THEN call.cmd.start + 10 + call.cmd.orig_len
                               ELSE Len(infile)
                 /\ (i = Len(calls)) => (pc = "cmd" /\ pos = call.end)
    /\ Len(OutCmds) = Len(Others)
    /\ \A k \in 1..Len(Others) :
          /\ OutCmds[k].cmd = Others[k].cmd.cmd
          /\ Others[k].written = pack_IHI(OutCmds[k].length, OutCmds[k].cmd, OutCmds[k].crc)
                                    \o OutCmds[k].payload

\* C9's case: a command was emitted, then a whole SET_XATTR or REMOVE_XATTR
\* command with a payload was read and dropped, then the command after it
\* was emitted.
C9_Witness ==
    \E i \in 2..Len(calls) :
        /\ i < Len(calls)
        /\ IsEmitted(calls[i - 1])
        /\ HasHeader(calls[i])
        /\ calls[i].cmd.cmd \in ClaimedElided
        /\ calls[i].cmd.orig_len > 0
        /\ calls[i].end = calls[i].cmd.start + 10 + calls[i].cmd.orig_len
        /\ calls[i].written = <<>>
        /\ IsEmitted(calls[i + 1])
        /\ Len(OutCmds) = 2

\* C10, as claimed: the commands written are the commands read, SET_XATTR and
\* REMOVE_XATTR commands left out: each emitted command has the command type
\* of its input command, as many attributes, the same attribute types in the
\* same order, and every attribute that is not path-hashed keeps its declared
\* length.
C10_StructurePreserved ==
    /\ Len(OutCmds) = Len(Others)
    /\ \A k \in 1..Len(Others) :
          LET attrs == Others[k].cmd.attrs
              tlvs == WireTlvs(OutCmds[k].payload, 0)
          IN  /\ OutCmds[k].cmd = Others[k].cmd.cmd
              /\ Len(tlvs) = Len(attrs)
              /\ \A j \in 1..Len(attrs) :
                    /\ tlvs[j].type = attrs[j].type
                    /\ attrs[j].type \notin ClaimedHashed => tlvs[j].len = attrs[j].len

\* C10 of the commands whose attribute values were all read to their declared
\* length.
C10_UnlessShortRead ==
    /\ Len(OutCmds) = Len(Others)
    /\ \A k \in 1..Len(Others) :
          LET attrs == Others[k].cmd.attrs
              tlvs == WireTlvs(OutCmds[k].payload, 0)
          IN  /\ OutCmds[k].cmd = Others[k].cmd.cmd
              /\ Len(tlvs) = Len(attrs)
              /\ \A j \in 1..Len(attrs) :
                    /\ tlvs[j].type = attrs[j].type
                    /\ (attrs[j].type \notin ClaimedHashed /\ Len(attrs[j].value) = attrs[j].len)
                          => tlvs[j].len = attrs[j].len

\* C11, as claimed: every attribute of an emitted command whose type is
\* neither path-bearing nor zero-redacted is emitted with its type code, its
\* declared length and its value bytes unchanged.
C11_OthersUnchanged ==
    /\ Len(OutCmds) = Len(Emitted)
    /\ \A k \in 1..Len(Emitted) :
          LET attrs == Emitted[k].cmd.attrs
              tlvs == WireTlvs(OutCmds[k].payload, 0)
          IN  /\ Len(tlvs) = Len(attrs)
              /\ \A j \in 1..Len(attrs) :
                    attrs[j].type \notin (ClaimedHashed \cup ClaimedRedacted)
                        => /\ tlvs[j].type = attrs[j].type
                           /\ tlvs[j].len = attrs[j].len
                           /\ tlvs[j].value = attrs[j].value

\* C11 of the attributes whose value was read to its declared length.
C11_UnlessShortRead ==
    /\ Len(OutCmds) = Len(Emitted)
    /\ \A k \in 1..Len(Emitted) :
          LET attrs == Emitted[k].cmd.attrs
              tlvs == WireTlvs(OutCmds[k].payload, 0)
          IN  /\ Len(tlvs) = Len(attrs)
              /\ \A j \in 1..Len(attrs) :
                    (/\ attrs[j].type \notin (ClaimedHashed \cup ClaimedRedacted)
                     /\ Len(attrs[j].value) = attrs[j].len)
                        => /\ tlvs[j].type = attrs[j].type
                           /\ tlvs[j].len = attrs[j].len
                           /\ tlvs[j].value = attrs[j].value

\* The XATTR_NAME attributes of the emitted commands: for each the attribute
\* as read and the attribute as written.
XattrNamesEmitted ==
    {[in |-> Emitted[kj[1]].cmd.attrs[kj[2]],
      out |-> WireTlvs(OutCmds[kj[1]].payload, 0)[kj[2]]] :
        kj \in {x \in (1..Len(Emitted)) \X (1..4) :
                  /\ x[1] <= Len(OutCmds)
                  /\ x[2] <= Len(Emitted[x[1]].cmd.attrs)
                  /\ x[2] <= Len(WireTlvs(OutCmds[x[1]].payload, 0))
                  /\ Emitted[x[1]].cmd.attrs[x[2]].type = ATTR_XATTR_NAME}}

InCmds == IF Len(infile) < 17 THEN <<>> ELSE WireCmds(infile, 17)

\* The attribute types of a command read back.
TlvTypes(c) == {WireTlvs(c.payload, 0)[j].type : j \in 1..Len(WireTlvs(c.payload, 0))}

\* The input's commands 1..e are a well-formed stream with valid checksums
\* that ends in its one END command and has nothing to hash, redact or elide.
CleanUpTo(e) ==
    /\ Len(infile) >= 17
    /\ SubSeq(infile, 1, 17) = BTRFS_SEND_STREAM_MAGIC \o pack_I(BTRFS_SEND_STREAM_VERSION)
    /\ e \in 1..Len(InCmds)
    /\ InCmds[e].cmd = CMD_END
    /\ \A i \in 1..e :
          /\ i < e => InCmds[i].cmd # CMD_END
          /\ WellFormedCmd(InCmds[i])
          /\ InCmds[i].cmd \notin ClaimedElided
          /\ TlvTypes(InCmds[i]) \cap (ClaimedHashed \cup ClaimedRedacted) = {}

\* The offset at which command e of the input ends.
EndOf(e) == 17 + 10 * e + SumLen(SubSeq(InCmds, 1, e), 1)

\* C13: on a well-formed stream with valid checksums that holds no
\* path-bearing or zero-redacted attribute and no SET_XATTR or REMOVE_XATTR
\* command, filter_send_stream raises nothing, what it has written is at every
\* moment the input bytes it has read, and when it returns it has written the
\* input from the start of the header through the end of the END command.
C13_RoundTrip ==
    \A e \in 1..Len(InCmds) :
        (prog = "sanitize" /\ CleanUpTo(e))
            => /\ raised = ""
               /\ pos <= EndOf(e)
               /\ outfile = SubSeq(infile, 1, pos)
               /\ pc = "done" => pos = EndOf(e)

\* C13's case: the run has returned after copying a stream of a TRUNCATE
\* command with a SIZE, a second command and END.
C13_Witness ==
    /\ prog = "sanitize" /\ pc = "done"
    /\ CleanUpTo(3)
    /\ InCmds[1].cmd = CMD_TRUNCATE
    /\ TlvTypes(InCmds[1]) = {ATTR_SIZE}
    /\ Len(InCmds[2].payload) > 0
    /\ outfile = SubSeq(infile, 1, EndOf(3))

\* C14: parse_send_stream yields the commands up to and including the first
\* END command and then completes, filter_send_stream emits up to and
\* including that END command and then returns; neither has read a byte past
\* the END command's payload, so what follows END in the input raises nothing
\* and is not in the output.
C14_StopsAtEnd ==
    /\ \A i \in 1..Len(calls) :
          (HasHeader(calls[i]) /\ calls[i].cmd.cmd = CMD_END /\ calls[i].returned # "raise")
              => /\ i = Len(calls)
                 /\ calls[i].returned = "True"
                 /\ pc = "done" /\ raised = ""
                 /\ pos = calls[i].end
                 /\ calls[i].end - calls[i].cmd.start - 10 <= calls[i].cmd.orig_len
                 /\ Len(OutCmds) = Len(Others)
                 /\ OutCmds[Len(OutCmds)].cmd = CMD_END
                 /\ \A k \in 1..(Len(OutCmds) - 1) : OutCmds[k].cmd # CMD_END
    /\ (prog = "sanitize" /\ pc = "done")
          => (Len(calls) > 0 /\ calls[Len(calls)].cmd.cmd = CMD_END)
    /\ \A i \in 1..Len(yielded) :
          yielded[i].type = CMD_END
              => /\ i = Len(yielded)
                 /\ pc = "done" /\ raised = ""
                 /\ pos = yielded[i].end
                 /\ yielded[i].end - yielded[i].start - 10 <= yielded[i].cmd_len
    /\ (prog = "parse" /\ pc = "done")
          => (Len(yielded) > 0 /\ yielded[Len(yielded)].type = CMD_END)

\* C14's case: the sanitizer has returned at an END command that had a
\* command before it and bytes after it.
C14_Witness ==
    /\ prog = "sanitize" /\ pc = "done"
    /\ Len(calls) >= 2
    /\ pos < Len(infile)
    /\ Len(OutCmds) = Len(Others)
    /\ OutCmds[Len(OutCmds)].cmd = CMD_END

BadMagic == read(infile, 0, 13) # <<98, 116, 114, 102, 115, 45, 115, 116, 114, 101, 97, 109, 0>>

\* The 4 bytes after the magic are short, or not version 1.
ShortVersion == Len(read(infile, 13, 4)) < 4
BadVersion == read(infile, 13, 4) # <<1, 0, 0, 0>>

\* C16: if the first 13 bytes of the input are not the magic, or the 4 bytes
\* after them are not the version 1 (or are short), the reader and the
\* transform fail before decoding any command: the first step raises
\* (ValueError, or struct.error for a short version), the reader yields no
\* command, filter_cmd is never called and no command is written.
C16_BadHeaderIsFatal ==
    (BadMagic \/ BadVersion)
        => /\ calls = <<>> /\ yielded = <<>>
           /\ OutCmds = <<>> /\ Len(outfile) <= 13
           /\ pos <= 17
           /\ pc \in {"header", "raised"}
           /\ pc = "header" => raised = ""
           /\ pc = "raised"
                 => raised = IF BadMagic THEN "ValueError"
                             ELSE IF ShortVersion THEN "struct.error"
                             ELSE "ValueError"

\* C16's case: the transform has raised on a header with version 2 that has
\* an END command behind it.
C16_Witness ==
    /\ prog = "sanitize" /\ pc = "raised" /\ raised = "ValueError"
    /\ ~BadMagic /\ BadVersion /\ ~ShortVersion
    /\ Len(infile) >= 27
    /\ calls = <<>>

\* The command and attribute type codes of the enumerations.
KnownCmds == 0..22
KnownAttrs == 0..24

\* C17: a command or attribute type code outside the enumerations is never an
\* error: past the stream header the only error raised is struct.error (a
\* short read or a timestamp that is not 12 bytes), in the transform only at
\* the end of the input or on a hashed path too long for its 16-bit length;
\* parse_send_stream yields the Cmd and Attr with the raw code, the
\* attribute's value the raw bytes read; the transform emits the command and
\* the attribute with the same code and the value bytes read, verbatim.
C17_UnknownCodesPassed ==
    /\ (pc = "raised" /\ pos > 17) => raised = "struct.error"
    /\ (prog = "sanitize" /\ pc = "raised" /\ pos > 17)
          => \/ pos = Len(infile)
             \/ \E i \in 1..Len(calls) : \E j \in 1..Len(calls[i].cmd.attrs) :
                    /\ calls[i].cmd.attrs[j].type \in ClaimedHashed
                    /\ Len(calls[i].cmd.attrs[j].new_value) > 65535
    /\ \A i \in 1..Len(calls) :
          (HasHeader(calls[i]) /\ calls[i].cmd.cmd \notin KnownCmds
           /\ calls[i].end < Len(infile))
              => IsEmitted(calls[i])
    /\ Len(OutCmds) = Len(Emitted)
    /\ \A k \in 1..Len(Emitted) :
          LET attrs == Emitted[k].cmd.attrs
              tlvs == WireTlvs(OutCmds[k].payload, 0)
          IN  /\ OutCmds[k].cmd = Emitted[k].cmd.cmd
              /\ Len(tlvs) = Len(attrs)
              /\ \A j \in 1..Len(attrs) :
                    attrs[j].type \notin KnownAttrs
                        => /\ tlvs[j].type = attrs[j].type
                           /\ tlvs[j].value = attrs[j].value
    /\ \A i \in 1..Len(yielded) :
          LET cmd == yielded[i]
              in == WireTlvs(read(infile, cmd.start + 10, cmd.end - cmd.start - 10), 0)
          IN  /\ cmd.type = from_bytes(SubSeq(infile, cmd.start + 5, cmd.start + 6))
              /\ Len(cmd.attrs) = Len(in)
              /\ \A j \in 1..Len(cmd.attrs) :
                    /\ cmd.attrs[j].type = in[j].type
                    /\ cmd.attrs[j].type \notin KnownAttrs
                          => cmd.attrs[j].value = [kind |-> "bytes", bytes |-> in[j].value]

\* C17's case: a command of type 23 with an attribute of type 25 lies whole
\* in the input, and the reader has yielded it.
C17_Witness ==
    \E i \in 1..Len(yielded) :
        /\ yielded[i].type = 23
        /\ yielded[i].n = yielded[i].cmd_len
        /\ yielded[i].end = yielded[i].start + 10 + yielded[i].cmd_len
        /\ yielded[i].attrs[1].type = 25
        /\ yielded[i].attrs[1].value.bytes = <<9>>
        /\ i < Len(yielded)

\* The stored checksum of a yielded command is not the checksum of its wire
\* bytes (its header with the checksum field zeroed, then its payload).
YieldedCrcWrong(cmd) ==
    cmd.crc # crc32c(pack_IHI(cmd.cmd_len, cmd.type, <<0, 0, 0, 0>>)
                     \o read(infile, cmd.start + 10, cmd.cmd_len))

\* The fields of the dataclass Cmd, and those kept beside them as history.
CmdFields == {"type", "attrs", "crc"}
HistoryFields == {"cmd_len", "n", "start", "end"}

C19_StreamingOrder ==
    /\ [][/\ Len(outfile') >= Len(outfile)
          /\ SubSeq(outfile', 1, Len(outfile)) = outfile
          /\ pos' >= pos
          /\ (prog = "sanitize" /\ pc = "cmd")
                => /\ Len(calls') = Len(calls) + 1
                   /\ SubSeq(calls', 1, Len(calls)) = calls
                   /\ LET call == calls'[Len(calls')]
                      IN  /\ call.cmd.start = pos
                          /\ call.end = pos'
                          /\ outfile' = outfile \o call.written
                          /\ call.written # <<>>
                                => /\ Len(call.written) >= 10
                                   /\ SubSeq(call.written, 1, 4)
                                         = pack_I(Len(call.written) - 10)
          /\ (prog = "parse" /\ pc = "cmd")
                => \/ yielded' = yielded /\ pc' = "raised"
                   \/ /\ Len(yielded') = Len(yielded) + 1
                      /\ SubSeq(yielded', 1, Len(yielded)) = yielded
                      /\ yielded'[Len(yielded')].start = pos
                      /\ yielded'[Len(yielded')].end = pos']_vars
    /\ [](prog = "sanitize" => outfile = SubSeq(outfile, 1, Min(17, Len(outfile)))
                                          \o Writes(calls, 1))

\* C19's case: three commands have been read and written one after the
\* other, and the input goes on.
C19_Witness ==
    /\ prog = "sanitize" /\ pc = "cmd"
    /\ Len(calls) = 2
    /\ IsEmitted(calls[1]) /\ IsEmitted(calls[2])
    /\ calls[2].cmd.start = calls[1].end
    /\ pos = calls[2].end /\ pos < Len(infile)
    /\ Len(outfile) = 17 + Len(calls[1].written) + Len(calls[2].written)

\* The attributes of a claimed path type read so far, each with the call and
\* the place in the command it was read at.
PathOccurrences ==
    {ij \in (1..Len(calls)) \X (1..4) :
        /\ ij[2] <= Len(calls[ij[1]].cmd.attrs)
        /\ calls[ij[1]].cmd.attrs[ij[2]].type \in ClaimedHashed}

\* C20: the hasher of filter_send_stream is the digest state of the salt from
\* the start of a run to its end, whatever commands and paths are processed:
\* no step changes it; and two path attributes with the same value, in
\* whatever commands and places of the run, are given the same new value.
C20_SaltedHasherFixed ==
    /\ hasher = md5(salt)
    /\ prog = "sanitize" =>
          \A o1 \in PathOccurrences, o2 \in PathOccurrences :
              LET a1 == calls[o1[1]].cmd.attrs[o1[2]]
                  a2 == calls[o2[1]].cmd.attrs[o2[2]]
              IN  a1.value = a2.value => a1.new_value = a2.new_value

\* C20's case: the same path with hashed components has been rewritten in
\* two commands, with another path rewritten in between.
C20_Witness ==
    /\ prog = "sanitize" /\ Len(calls) = 2
    /\ IsEmitted(calls[1]) /\ IsEmitted(calls[2])
    /\ Len(calls[1].cmd.attrs) = 2
    /\ Len(calls[2].cmd.attrs) >= 1
    /\ calls[1].cmd.attrs[1].type = ATTR_PATH
    /\ calls[1].cmd.attrs[2].type = ATTR_PATH_TO
    /\ calls[2].cmd.attrs[1].type = ATTR_PATH
    /\ calls[1].cmd.attrs[1].value = calls[2].cmd.attrs[1].value
    /\ calls[1].cmd.attrs[2].value # calls[1].cmd.attrs[1].value
    /\ calls[1].cmd.attrs[1].new_value # calls[1].cmd.attrs[1].value
    /\ calls[1].cmd.attrs[2].new_value # calls[1].cmd.attrs[2].value
    /\ calls[2].cmd.attrs[1].new_value = calls[1].cmd.attrs[1].new_value
    /\ hasher = md5(salt)

\* The exceptions that report a malformed or truncated stream.
StreamErrors == {"ValueError", "struct.error"}

\* C21: once the reader has yielded the END command, asking it for another
\* command raises StopIteration, which is none of the exceptions a malformed
\* stream raises, and reads nothing, yields nothing and leaves the reader done.
C21_PastDoneIsMisuse ==
    /\ [][(prog = "parse" /\ pc = "done")
             => /\ raised' = "StopIteration"
                /\ raised' \notin StreamErrors
                /\ pos' = pos
                /\ yielded' = yielded
                /\ pc' = "done"]_vars
    /\ [](raised = "StopIteration"
             => /\ prog = "parse" /\ pc = "done"
                /\ yielded # <<>>
                /\ yielded[Len(yielded)].type = CMD_END
                /\ pos = yielded[Len(yielded)].end)

\* C21's case: the reader was asked for a command after END with input left.
C21_Witness ==
    /\ prog = "parse" /\ pc = "done"
    /\ raised = "StopIteration"
    /\ Len(yielded) = 2
    /\ pos < Len(infile)

\* The attributes of a yielded command as they stand in the bytes the reader
\* consumed for it.
WireAttrs(y) == WireTlvs(SubSeq(infile, y.start + 11, y.end), 0)

\* The integer d, base-256 digits from the least significant, is the
\* little-endian unsigned integer of the bytes b.
SameNumber(d, b) ==
    \A i \in 1..(Len(d) + Len(b)) :
        (IF i <= Len(d) THEN d[i] ELSE 0) = (IF i <= Len(b) THEN b[i] ELSE 0)

\* Bits lo .. lo + 11 of the little-endian unsigned integer of the bytes b, for
\* lo a multiple of 4 below 24.
Bits12(b, lo) ==
    LET at(i) == IF i <= Len(b) THEN b[i] ELSE 0
        k == lo \div 8
        three == at(k + 1) + 256 * at(k + 2) + 65536 * at(k + 3)
    IN  (three \div (IF lo % 8 = 0 THEN 1 ELSE 16)) % 4096

ClaimedInts == {2, 3, 4, 5, 6, 7, 18, 21, 23, 24}

ClaimedTimes == {9, 10, 11, 12}

ClaimedRdev == {8}

\* The value the reader is to give an attribute of type t read as the bytes b.
DecodedAs(v, t, b) ==
    IF t \in ClaimedInts THEN v.kind = "int" /\ SameNumber(v.int, b)
    ELSE IF t \in ClaimedRdev
    THEN /\ v.kind = "DevT"
         /\ v.major = Bits12(b, 8)
         /\ v.minor = (IF b = <<>> THEN 0 ELSE b[1]) + 256 * Bits12(b, 20)
    ELSE IF t \in ClaimedTimes
    THEN /\ v.kind = "Timestamp"
         /\ Len(b) = 12
         /\ SameNumber(v.sec, SubSeq(b, 1, 8))
         /\ SameNumber(v.nsec, SubSeq(b, 9, 12))
    ELSE v.kind = "bytes" /\ v.bytes = b

\* C22: every attribute of every command parse_send_stream yields holds its
\* value decoded by its type: the integer types as the little-endian unsigned
\* integer of the bytes read, however many; RDEV as major, bits 8..19 of the
\* device number, and minor, its bits 0..7 below its bits 20..31; the four
\* times as 8 bytes of seconds and 4 of nanoseconds, little-endian; every
\* other type, in the enumeration or not, as the bytes read.
C22_DecodedByType ==
    prog = "parse" =>
        \A i \in 1..Len(yielded) :
            LET y == yielded[i]
                w == WireAttrs(y)
            IN  /\ Len(y.attrs) = Len(w)
                /\ \A j \in 1..Len(w) :
                      /\ y.attrs[j].type = w[j].type
                      /\ DecodedAs(y.attrs[j].value, w[j].type, w[j].value)

\* C22's case: a command with an integer and a time and a command with a
\* device number and an integer have been yielded, and END after them.
C22_Witness ==
    /\ prog = "parse" /\ pc = "done" /\ Len(yielded) = 3
    /\ Len(yielded[1].attrs) = 2 /\ Len(yielded[2].attrs) = 2
    /\ yielded[1].attrs[1].type = 6 /\ yielded[1].attrs[1].value.kind = "int"
    /\ yielded[1].attrs[1].value.int = <<232, 3>>
    /\ yielded[1].attrs[2].type = 10
    /\ yielded[1].attrs[2].value.sec = <<5>> /\ yielded[1].attrs[2].value.nsec = <<9>>
    /\ yielded[2].attrs[1].type = 8
    /\ yielded[2].attrs[1].value.major = 8 /\ yielded[2].attrs[1].value.minor = 257
    /\ yielded[2].attrs[2].value.int = <<164, 97>>
    /\ yielded[3].type = CMD_END

\* w is a 32-bit word: four bytes.
IsWord(w) == Len(w) = 4 /\ \A i \in 1..4 : w[i] \in 0..255

\* Every entry of the table is a 32-bit word, the one the eight rounds of the
\* bit-at-a-time division give its index.
TableIsReflected ==
    \A i \in 0..255 :
        IsWord(crc32c_table[i]) /\ crc32c_table[i] = ReflectedBits(<<i, 0, 0, 0>>, 8)

RECURSIVE StepsAgree(_, _, _, _)
\* From the accumulator acc, over b[lo..hi]: the accumulator the steps by the
\* table end with if each of them gives a 32-bit word, the one the
\* bit-at-a-time division of the byte gives; the empty sequence if one does
\* not.
StepsAgree(acc, b, lo, hi) ==
    IF lo > hi THEN acc
    ELSE IF lo = hi
    THEN LET next == crc32c_step(acc, b[lo])
         IN  IF /\ IsWord(next)
                /\ next = ReflectedBits(<<Xor8[acc[1]][b[lo]], acc[2], acc[3], acc[4]>>, 8)
             THEN next
             ELSE <<>>
    ELSE LET mid == (lo + hi) \div 2
             half == StepsAgree(acc, b, lo, mid)
         IN  IF Len(half) = 4 THEN StepsAgree(half, b, mid + 1, hi) ELSE <<>>

\* The bytes the last call of filter_cmd checksummed: what it wrote, with the
\* checksum field zero.
LastChecksummed ==
    LET w == calls[Len(calls)].written
    IN  SubSeq(w, 1, 6) \o <<0, 0, 0, 0>> \o SubSeq(w, 11, Len(w))

\* C23: the checksum by table is the bit-at-a-time reflected CRC with the
\* polynomial 0x82F63B78: every table entry is the division of its index, and
\* over the bytes of every command checksummed, from the accumulator 0, from
\* the accumulator 0xFFFFFFFF and from the command's stored checksum taken as
\* an accumulator, every step gives the word the division gives, and so does
\* the whole loop; all of them are 32-bit words.
C23_TableIsBitwise ==
    /\ TableIsReflected
    /\ (calls # <<>> /\ IsEmitted(calls[Len(calls)])) =>
          LET b == LastChecksummed
          IN  \A acc \in {<<0, 0, 0, 0>>, ALL_ONES, calls[Len(calls)].cmd.orig_crc} :
                 /\ Len(acc) = 4 =>
                       /\ StepsAgree(acc, b, 1, Len(b)) = crc32c_loop(acc, b, 1, Len(b))
                       /\ crc32c_loop(acc, b, 1, Len(b)) = ReflectedCrc(acc, b, 1, Len(b))

\* C23's case: a command with a payload was checksummed, and its checksum has
\* bits set in every byte.
C23_Witness ==
    /\ calls # <<>> /\ IsEmitted(calls[Len(calls)])
    /\ Len(LastChecksummed) > 20
    /\ LET crc == crc32c(LastChecksummed)
       IN  /\ \A i \in 1..4 : crc[i] # 0
           /\ crc = SubSeq(calls[Len(calls)].written, 7, 10)

\* The number of '/' in the bytes b.
Slashes(b) == Cardinality({i \in 1..Len(b) : b[i] = 47})

\* The bytes of the hexadecimal digits, 0-9 and a-f.
HexDigits == (48..57) \cup (97..102)

\* C24: every path the sanitizer rewrites keeps its shape: the new path has
\* as many '/' and as many components as the path read; a component that is
\* empty, '.' or '..' stands unchanged at its place; every other component is
\* replaced by 32 hexadecimal digits, with no '/' among them, however long the
\* component is.
C24_PathShapeKept ==
    prog = "sanitize" =>
        \A o \in PathOccurrences :
            LET a == calls[o[1]].cmd.attrs[o[2]]
                old == split(a.value)
                new == split(a.new_value)
            IN  /\ Slashes(a.new_value) = Slashes(a.value)
                /\ Len(new) = Len(old)
                /\ Len(old) = Slashes(a.value) + 1
                /\ \A k \in 1..Len(old) :
                      IF old[k] \in {<<>>, <<46>>, <<46, 46>>}
                      THEN new[k] = old[k]
                      ELSE /\ Len(new[k]) = 32
                           /\ \A i \in 1..32 : new[k][i] \in HexDigits

\* C24's case: a path with an empty, a '.' and a '..' component and a hashed
\* component of three bytes, and a path with hashed components of one byte,
\* have been rewritten.
C24_Witness ==
    /\ prog = "sanitize"
    /\ \E o \in PathOccurrences :
          LET old == split(calls[o[1]].cmd.attrs[o[2]].value)
          IN  /\ Len(old) = 4
              /\ old[1] = <<46>> /\ old[2] = <<46, 46>> /\ Len(old[3]) = 3 /\ old[4] = <<>>
    /\ \E o \in PathOccurrences :
          LET old == split(calls[o[1]].cmd.attrs[o[2]].value)
          IN  Len(old) = 2 /\ Len(old[1]) = 1 /\ Len(old[2]) = 1 /\ old[1][1] # 46

\* n bytes of value fill.
Fill(n, fill) == <<>> \o [i \in 1..n |-> fill]

RECURSIVE ScrubAttrs(_, _, _)
\* The wire bytes of the attributes attrs[j..] as read, the value bytes of the
\* attributes claimed redacted replaced by fill.
ScrubAttrs(attrs, j, fill) ==
    IF j > Len(attrs) THEN <<>>
    ELSE pack_HH(attrs[j].type, attrs[j].len)
         \o (IF attrs[j].type \in ClaimedRedacted
             THEN Fill(Len(attrs[j].value), fill)
             ELSE attrs[j].value)
         \o ScrubAttrs(attrs, j + 1, fill)

\* The input bytes a call of filter_cmd read, with the stored checksum, the
\* value bytes of the attributes claimed redacted and, of a command claimed
\* elided, the payload replaced by fill; lengths and all else are kept.
ScrubCall(call, fill) ==
    LET consumed == SubSeq(infile, call.cmd.start + 1, call.end)
    IN  IF ~HasHeader(call) THEN consumed
        ELSE IF call.cmd.cmd \in ClaimedElided
        THEN SubSeq(consumed, 1, 6) \o Fill(Len(consumed) - 6, fill)
        ELSE LET body == ScrubAttrs(call.cmd.attrs, 1, fill)
             IN  SubSeq(consumed, 1, 6) \o Fill(4, fill) \o body
                 \o SubSeq(consumed, 11 + Len(body), Len(consumed))

RECURSIVE ScrubCalls(_, _)
ScrubCalls(i, fill) ==
    IF i > Len(calls) THEN <<>> ELSE ScrubCall(calls[i], fill) \o ScrubCalls(i + 1, fill)

\* An input that differs from infile in nothing but the bytes the claim calls
\* redacted, which are all fill: the stored checksums of the commands read,
\* the values of their DATA, CTIME, MTIME, ATIME, OTIME, UID and GID attributes
\* and the payloads of the SET_XATTR and REMOVE_XATTR commands.
Twin(fill) ==
    SubSeq(infile, 1, IF calls = <<>> THEN pos ELSE calls[1].cmd.start)
    \o ScrubCalls(1, fill)
    \o SubSeq(infile, pos + 1, Len(infile))

\* The values the redacted bytes of the two other inputs take.
Fills == {0, 255}

\* C25: when a run of the sanitizer has ended, by END or by an exception, a
\* run with the same salt on an input that differs in redacted bytes only
\* (checksum fields, values of redacted attributes, payloads of the elided
\* commands, all of the same lengths) writes the same bytes and ends the same
\* way.
C25_RedactedBytesDoNotShow ==
    (prog = "sanitize" /\ pc \in {"done", "raised"}) =>
        \A fill \in Fills :
            LET other == filter_send_stream(Twin(fill), salt)
            IN  /\ Len(Twin(fill)) = Len(infile)
                /\ other.written = outfile
                /\ other.raised = raised
                /\ other.pos = pos

\* C25's case: a run that ended after a command with a redacted value and a
\* wrong checksum and an elided command, the other inputs differing from
\* infile and from each other in the checksum and in the redacted bytes.
C25_Witness ==
    /\ prog = "sanitize" /\ pc = "done" /\ Len(calls) = 3
    /\ IsEmitted(calls[1])
    /\ \E j \in 1..Len(calls[1].cmd.attrs) :
          /\ calls[1].cmd.attrs[j].type \in ClaimedRedacted
          /\ calls[1].cmd.attrs[j].value # Fill(calls[1].cmd.attrs[j].len, 0)
          /\ calls[1].cmd.attrs[j].len > 0
    /\ calls[2].cmd.cmd \in ClaimedElided /\ calls[2].end > calls[2].cmd.start + 10
    /\ Twin(0) # infile /\ Twin(255) # infile
    /\ Len(outfile) > 37

\* A path attribute read so far has a new value too long for the 16-bit
\* length of an attribute header.
PathTooLong ==
    \E o \in PathOccurrences :
        Len(calls[o[1]].cmd.attrs[o[2]].new_value) > 65535

\* C26, as claimed: on a well-formed input (the header, commands whose
\* attributes fill their payload exactly and whose checksums are right, END
\* last and only last) the sanitizer raises nothing, however much longer than
\* a path its new value is: no such run is left by an exception, and none
\* stops before it has read the input to its end.
C26_WellFormedCompletes ==
    (prog = "sanitize" /\ WellFormedStream(infile))
        => /\ pc # "raised" /\ raised = ""
           /\ pc = "done" => pos = Len(infile)

\* What holds of the code: on a well-formed input the sanitizer raises only
\* when the new value of a path is longer than 65535 bytes.
C26_UnlessTooLong ==
    (prog = "sanitize" /\ WellFormedStream(infile) /\ ~PathTooLong)
        => /\ pc # "raised" /\ raised = ""
           /\ pc = "done" => pos = Len(infile)

\* The command a call of filter_cmd wrote, read back from the bytes written.
WrittenCmd(call) == WireCmds(call.written, 0)[1]

RECURSIVE SumNewLen(_, _)
\* The bytes of the attributes attrs[j..] with their new values: four of
\* header and the new value for each.
SumNewLen(attrs, j) ==
    IF j > Len(attrs) THEN 0
    ELSE 4 + Len(attrs[j].new_value) + SumNewLen(attrs, j + 1)

\* C27: in every command the sanitizer writes, the 32-bit length field is the
\* number of payload bytes written after the header and the payload holds, for
\* each attribute read and in their order, a header whose 16-bit length field
\* is the number of bytes of the new value and the new value whole; a call in
\* which a path's new value is longer than 65535 bytes raises and writes
\* nothing, so no length is written wrapped or cut.
C27_LengthsAreCounts ==
    \A i \in 1..Len(calls) :
        LET call == calls[i]
            attrs == call.cmd.attrs
            TooLong == \E j \in 1..Len(attrs) : Len(attrs[j].new_value) > 65535
        IN  /\ TooLong => /\ call.returned = "raise" /\ call.written = <<>>
                          /\ raised = "struct.error" /\ pc = "raised"
            /\ IsEmitted(call) =>
                  /\ Len(call.written) >= 10
                  /\ Len(WireCmds(call.written, 0)) = 1
                  /\ LET c == WrittenCmd(call)
                         tlvs == WireTlvs(c.payload, 0)
                     IN  /\ c.length = Len(call.written) - 10
                         /\ c.length \div 65536 < 65536
                         /\ Len(tlvs) = Len(attrs)
                         /\ \A j \in 1..Len(attrs) :
                               /\ tlvs[j].len = Len(attrs[j].new_value)
                               /\ tlvs[j].len <= 65535
                               /\ tlvs[j].value = attrs[j].new_value
                         /\ c.length = SumNewLen(attrs, 1)

\* C27's case: a command with two paths grown to 65 bytes each was written,
\* and the next call raised on a path that grew to more than 65535 bytes,
\* leaving the output as it was.
C27_Witness ==
    /\ prog = "sanitize" /\ pc = "raised" /\ raised = "struct.error"
    /\ Len(calls) = 2
    /\ IsEmitted(calls[1])
    /\ Len(calls[1].cmd.attrs) = 2
    /\ Len(calls[1].cmd.attrs[1].new_value) = 65
    /\ Len(calls[1].cmd.attrs[1].value) = 3
    /\ Len(calls[2].cmd.attrs) = 1
    /\ Len(calls[2].cmd.attrs[1].value) < 4096
    /\ Len(calls[2].cmd.attrs[1].new_value) > 65535
    /\ outfile = SubSeq(infile, 1, 17) \o calls[1].written

\* The output is the whole stream header and, whole and in order, the commands
\* written by the calls of filter_cmd before the last, the last having written
\* nothing.
OnlyWholeCommands ==
    /\ calls # <<>>
    /\ calls[Len(calls)].written = <<>>
    /\ outfile = SubSeq(infile, 1, 17) \o Writes(calls, 1)
    /\ Len(OutCmds) = Len(Emitted)
    /\ \A i \in 1..Len(OutCmds) : WellFormedCmd(OutCmds[i])
    /\ Len(outfile) = 17 + 10 * Len(OutCmds) + SumLen(OutCmds, 1)

\* C28, as claimed: when the sanitizer has raised on the stream header (a
\* wrong magic, a wrong or short version) it has written no byte at all, and
\* when it has raised in a call of filter_cmd the output is the whole header
\* and the whole commands written by the calls before, with no part of a
\* header or of a command after them.
C28_FailsCleanly ==
    (prog = "sanitize" /\ pc = "raised")
        => IF calls = <<>> THEN outfile = <<>> ELSE OnlyWholeCommands

\* What holds of the code: a wrong magic leaves the output empty, a wrong or
\* short version leaves the 13 bytes of the magic in it, and a call of
\* filter_cmd that raises leaves the whole header and whole commands.
C28_UnlessVersion ==
    (prog = "sanitize" /\ pc = "raised")
        => IF calls # <<>> THEN OnlyWholeCommands
           ELSE IF BadMagic THEN outfile = <<>>
           ELSE BadVersion /\ outfile = SubSeq(infile, 1, 13)

Max(a, b) == IF a >= b THEN a ELSE b

RECURSIVE SumDeclared(_, _)
\* What the attributes attrs[j..] add to the count n: 4 and the declared
\* length for each.
SumDeclared(attrs, j) ==
    IF j > Len(attrs) THEN 0 ELSE 4 + attrs[j].len + SumDeclared(attrs, j + 1)

\* The count n of an attribute loop that read attrs for a command of declared
\* length length: n is 4 and the declared length for each attribute read, so
\* at least 4 more after each, and the loop read no attribute once n had
\* reached the declared length.
CountedTo(attrs, n, length) ==
    /\ n = SumDeclared(attrs, 1)
    /\ n >= 4 * Len(attrs)
    /\ attrs # <<>> => n - (4 + attrs[Len(attrs)].len) < length

\* C29: both programs come to an end on every input, after END or by an
\* exception: a program that has not ended is at its header or in its loop,
\* where it has a step to take; every step ends the program or reads at least
\* one byte more of the input, and the turns of the loop taken are at most one
\* more than the 10-byte command headers the input read so far has room for.
\* And in every command read, the count of the attribute loop is 4 and the
\* declared length for each attribute read, zero-length ones included, the
\* loop reads no attribute once the count has reached the command's declared
\* length, and it ends without an exception only with the count at or above
\* that length.
C29_Terminates ==
    /\ [](/\ prog \in {"sanitize", "parse"}
          /\ pc \in {"header", "cmd", "done", "raised"}
          /\ pos <= Len(infile)
          /\ pc = "header" => pos = 0
          /\ 10 * (Len(calls) + Len(yielded)) <= Max(pos - 17, 0) + 10)
    /\ [][/\ pc \in {"header", "cmd"}
          /\ pc' \in {"done", "raised"} \/ (pc' = "cmd" /\ pos' > pos)]_vars
    /\ [](\A i \in 1..Len(calls) :
             (HasHeader(calls[i]) /\ calls[i].cmd.cmd \notin ClaimedElided)
                => /\ CountedTo(calls[i].cmd.attrs, calls[i].cmd.n, calls[i].cmd.orig_len)
                   /\ IsEmitted(calls[i]) => calls[i].cmd.n >= calls[i].cmd.orig_len)
    /\ [](\A i \in 1..Len(yielded) :
             /\ CountedTo(yielded[i].attrs, yielded[i].n, yielded[i].cmd_len)
             /\ yielded[i].n >= yielded[i].cmd_len)

\* C29's case: a run has ended after a command whose count ended above the
\* declared length and a command in which the loop went on after an
\* attribute of length zero.
C29_Witness ==
    /\ pc \in {"done", "raised"}
    /\ \E i \in 1..Len(calls) :
          /\ IsEmitted(calls[i])
          /\ calls[i].cmd.n > calls[i].cmd.orig_len
    /\ \E i \in 1..Len(calls) :
          /\ IsEmitted(calls[i])
          /\ Len(calls[i].cmd.attrs) >= 2
          /\ calls[i].cmd.attrs[1].len = 0
          /\ calls[i].cmd.attrs[1].value = <<>>


\* The powers of two that fit a 32-bit signed integer.
PowersOfTwo == {2 ^ e : e \in 0..30}

\* The checksum the claim names, of n zero bytes: seeded with all ones, the
\* polynomial's rounds bit by bit, all ones exclusive-ored in at the end.
ChecksumOfZeroes(n) == XorW(ReflectedCrc(ALL_ONES, Zeroes(n), 1, n), ALL_ONES)

\* C30: btrfs_checksum_zeroes prints a line for block size i exactly when i is
\* a power of two, in increasing order (1, 2, 4, ...), and never ends on its
\* own: it has no state but its loop, raises nothing, and its next turn can
\* always be taken.  The value printed for i is the checksum (polynomial
\* 0x82F63B78, seed 0xFFFFFFFF, final exclusive or with 0xFFFFFFFF) of i zero
\* bytes, and the accumulator carried from one i to the next is the one without
\* that final exclusive or.
C30_ZeroBlockChecksums ==
    /\ prog = "checksum_zeroes"
    /\ pc = "loop" /\ raised = ""
    /\ zeroes_i <= MaxBlock => ENABLED ZeroesStep
    /\ \A n \in 1..(zeroes_i - 1) :
           n \in PowersOfTwo <=> \E k \in 1..Len(stdout) : stdout[k].i = n
    /\ \A k \in 1..Len(stdout) :
           /\ stdout[k].i = 2 ^ (k - 1)
           /\ stdout[k].crc = ChecksumOfZeroes(stdout[k].i)
    /\ zeroes_crc = ReflectedCrc(ALL_ONES, Zeroes(zeroes_i - 1), 1, zeroes_i - 1)

\* The program has passed block size 128: eight lines are out, the first the
\* checksum 0x527d5351 of one zero byte, the last 0x082764db for 128.
C30_Witness ==
    /\ prog = "checksum_zeroes"
    /\ zeroes_i > 128
    /\ Len(stdout) = 8
    /\ stdout[1] = [i |-> 1, crc |-> <<81, 83, 125, 82>>]
    /\ stdout[8] = [i |-> 128, crc |-> <<219, 100, 39, 8>>]
    /\ zeroes_crc # XorW(stdout[8].crc, ALL_ONES)

=============================================================================
